---- MODULE Spec2Model ----
(***************************************************************************)
(* smart-json-mocker: the field-resolution engine.                         *)
(*                                                                         *)
(* JavaScript values live in a heap of cells (objects and arrays), so that *)
(* aliasing between a record, its clone, the collaborator's result mapping *)
(* and the cache is part of the model.  Strings are sequences of one-      *)
(* character strings, so that path splitting and the index-segment regex   *)
(* are computed as the code computes them.                                 *)
(***************************************************************************)
EXTENDS Integers, Sequences, FiniteSets, TLC

\* ------------------------------------------------------------------------
\* Strings
\* ------------------------------------------------------------------------

Digits == <<"0", "1", "2", "3", "4", "5", "6", "7", "8", "9">>

IsDigit(c) == \E i \in 1..10 : Digits[i] = c

DigitVal(c) == (CHOOSE i \in 1..10 : Digits[i] = c) - 1

\* UTF-16 code units of the characters the model uses (the order decides
\* Array.prototype.sort and the value decides simpleHash).
CharCode(c) ==
  CASE c = " " -> 32
    [] c = "." -> 46
    [] c = "0" -> 48
    [] c = "1" -> 49
    [] c = "2" -> 50
    [] c = ":" -> 58
    [] c = "[" -> 91
    [] c = "]" -> 93
    [] c = "a" -> 97
    [] c = "b" -> 98
    [] c = "e" -> 101
    [] c = "s" -> 115
    [] c = "u" -> 117
    [] c = "x" -> 120
    [] c = "y" -> 121
    [] c = "z" -> 122
    [] c = "|" -> 124
    [] OTHER -> 63

RECURSIVE ParseDigits(_, _)
\* parseInt(indexStr, 10) of a string of decimal digits, left to right.
ParseDigits(s, acc) ==
  IF s = <<>> THEN acc ELSE ParseDigits(Tail(s), acc * 10 + DigitVal(Head(s)))

parseInt(s) == ParseDigits(s, 0)

RECURSIVE ToDecimal(_)
\* String(n) for a non-negative integer: the property key of array index n.
ToDecimal(n) ==
  IF n < 10 THEN <<Digits[n + 1]>>
  ELSE Append(ToDecimal(n \div 10), Digits[(n % 10) + 1])

\* A canonical array index: the decimal spelling of a non-negative integer.
IsIndexKey(k) ==
  /\ k # <<>>
  /\ \A i \in 1..Len(k) : IsDigit(k[i])
  /\ ToDecimal(parseInt(k)) = k

RECURSIVE SplitFrom(_, _, _)
SplitFrom(s, i, cur) ==
  IF i > Len(s) THEN <<cur>>
  ELSE IF s[i] = "." THEN <<cur>> \o SplitFrom(s, i + 1, <<>>)
  ELSE SplitFrom(s, i + 1, Append(cur, s[i]))

\* path.split('.')
split(path) == SplitFrom(path, 1, <<>>)

NoMatch == [matched |-> FALSE]

\* part.match(/^(.+)\[(\d+)\]$/): at least one character, "[", at least one
\* digit, and a closing "]" at the very end.  Digits hold no "[", so the
\* bracket is the last "[" of the segment.
arrayMatch(part) ==
  LET n == Len(part)
      opens == {i \in 2..(n - 2) :
                  /\ part[i] = "["
                  /\ \A j \in (i + 1)..(n - 1) : IsDigit(part[j])}
  IN IF n >= 4 /\ part[n] = "]" /\ opens # {}
     THEN LET i == CHOOSE o \in opens : TRUE
          IN [matched |-> TRUE,
              arrayKey |-> SubSeq(part, 1, i - 1),
              index |-> parseInt(SubSeq(part, i + 1, n - 1))]
     ELSE NoMatch

\* ------------------------------------------------------------------------
\* Values and the heap
\* ------------------------------------------------------------------------

Null == [t |-> "null"]
Undef == [t |-> "undefined"]
StrV(s) == [t |-> "string", s |-> s]
NumV(n) == [t |-> "number", n |-> n]
BoolV(b) == [t |-> "boolean", b |-> b]
RefV(r) == [t |-> "ref", r |-> r]

IsRef(v) == v.t = "ref"

\* JavaScript truthiness, as used by !current[part].
Truthy(v) ==
  CASE v.t = "null" -> FALSE
    [] v.t = "undefined" -> FALSE
    [] v.t = "string" -> v.s # <<>>
    [] v.t = "number" -> v.n # 0
    [] v.t = "boolean" -> v.b
    [] OTHER -> TRUE

\* A cell is an object or an array: its own properties in enumeration
\* order (array indexes ascending, then the other keys in insertion order).
EmptyObj == [arr |-> FALSE, props |-> <<>>]
EmptyArr == [arr |-> TRUE, props |-> <<>>]

RECURSIVE PropIndex(_, _, _)
PropIndex(props, key, i) ==
  IF i > Len(props) THEN 0
  ELSE IF props[i][1] = key THEN i
  ELSE PropIndex(props, key, i + 1)

HasProp(cell, key) == PropIndex(cell.props, key, 1) # 0

\* Where a new key goes in the enumeration order.
InsertAt(props, key) ==
  IF IsIndexKey(key)
  THEN Cardinality({i \in 1..Len(props) :
                      /\ IsIndexKey(props[i][1])
                      /\ parseInt(props[i][1]) < parseInt(key)}) + 1
  ELSE Len(props) + 1

\* cell[key] = value
PutProp(cell, key, value) ==
  LET i == PropIndex(cell.props, key, 1)
  IN IF i # 0
     THEN [cell EXCEPT !.props[i] = <<key, value>>]
     ELSE LET p == InsertAt(cell.props, key)
          IN [cell EXCEPT !.props =
                SubSeq(cell.props, 1, p - 1) \o <<<<key, value>>>>
                  \o SubSeq(cell.props, p, Len(cell.props))]

\* array.length: one more than the largest index present.
ArrayLength(cell) ==
  LET idx == {parseInt(cell.props[i][1]) :
                i \in {j \in 1..Len(cell.props) : IsIndexKey(cell.props[j][1])}}
  IN IF idx = {} THEN 0 ELSE (CHOOSE m \in idx : \A k \in idx : k <= m) + 1

\* value[key] for any value that is not null or undefined.  A string has
\* its characters as index properties; numbers and booleans have none.
GetProp(h, v, key) ==
  CASE v.t = "ref" ->
         LET i == PropIndex(h[v.r].props, key, 1)
         IN IF i = 0 THEN Undef ELSE h[v.r].props[i][2]
    [] v.t = "string" ->
         IF IsIndexKey(key) /\ parseInt(key) < Len(v.s)
         THEN StrV(<<v.s[parseInt(key) + 1]>>)
         ELSE Undef
    [] OTHER -> Undef

IsArray(h, v) == IsRef(v) /\ h[v.r].arr

\* ------------------------------------------------------------------------
\* Literals: records as a caller writes them, before they are objects
\* ------------------------------------------------------------------------

ObjL(props) == [t |-> "cell", arr |-> FALSE, props |-> props]

ArrL(items) ==
  [t |-> "cell", arr |-> TRUE,
   props |-> [i \in 1..Len(items) |-> <<ToDecimal(i - 1), items[i]>>]]

RECURSIVE LoadProps(_, _, _, _)
RECURSIVE Load(_, _)
\* Builds the objects of a literal in the heap: [h, v].
Load(h, lit) ==
  IF lit.t # "cell" THEN [h |-> h, v |-> lit]
  ELSE LET r == Len(h) + 1
           h1 == Append(h, [arr |-> lit.arr, props |-> <<>>])
           done == LoadProps(h1, lit.props, 1, <<>>)
       IN [h |-> [done.h EXCEPT ![r].props = done.props], v |-> RefV(r)]

LoadProps(h, props, i, acc) ==
  IF i > Len(props) THEN [h |-> h, props |-> acc]
  ELSE LET c == Load(h, props[i][2])
       IN LoadProps(c.h, props, i + 1, Append(acc, <<props[i][1], c.v>>))

RECURSIVE Read(_, _)
\* The structure a value denotes: what deep equality compares.
Read(h, v) ==
  IF ~IsRef(v) THEN v
  ELSE [t |-> "cell", arr |-> h[v.r].arr,
        props |-> [i \in 1..Len(h[v.r].props) |->
                     <<h[v.r].props[i][1], Read(h, h[v.r].props[i][2])>>]]

RECURSIVE Reach(_, _)
\* The cells a value is made of.
Reach(h, v) ==
  IF ~IsRef(v) THEN {}
  ELSE {v.r} \cup UNION {Reach(h, h[v.r].props[i][2]) : i \in 1..Len(h[v.r].props)}

\* ------------------------------------------------------------------------
\* utils: isEmpty, getValueType, deepClone
\* ------------------------------------------------------------------------

isNullish(v) == v.t = "null" \/ v.t = "undefined"

\* value.trim() === '': only white space (the model's white space is " ").
IsBlank(s) == \A i \in 1..Len(s) : s[i] = " "

isEmpty(h, v) ==
  \/ isNullish(v)
  \/ v.t = "string" /\ IsBlank(v.s)
  \/ IsArray(h, v) /\ ArrayLength(h[v.r]) = 0
  \/ IsRef(v) /\ h[v.r].props = <<>>

getValueType(h, v) ==
  CASE v.t = "null" -> "null"
    [] v.t = "undefined" -> "undefined"
    [] IsArray(h, v) -> "array"
    [] v.t = "ref" -> "object"
    [] OTHER -> v.t

\* A mutant of deepClone: only the top-level object is copied (a spread),
\* nested objects and arrays stay shared with the original.
deepCloneShallow(h, v) ==
  IF ~IsRef(v) THEN [h |-> h, v |-> v]
  ELSE [h |-> Append(h, h[v.r]), v |-> RefV(Len(h) + 1)]

RECURSIVE deepCloneProps(_, _, _, _, _)
RECURSIVE deepClone(_, _)
\* Primitives are returned as they are; an array is mapped element by
\* element (Array.prototype.map keeps holes and drops non-index
\* properties); an object is copied own key by own key.
deepClone(h, v) ==
  IF ~IsRef(v) THEN [h |-> h, v |-> v]
  ELSE LET r == Len(h) + 1
           h1 == Append(h, [arr |-> h[v.r].arr, props |-> <<>>])
           done == deepCloneProps(h1, h[v.r].props, h[v.r].arr, 1, <<>>)
       IN [h |-> [done.h EXCEPT ![r].props = done.props], v |-> RefV(r)]

deepCloneProps(h, props, isArr, i, acc) ==
  IF i > Len(props) THEN [h |-> h, props |-> acc]
  ELSE IF isArr /\ ~IsIndexKey(props[i][1])
  THEN deepCloneProps(h, props, isArr, i + 1, acc)
  ELSE LET c == deepClone(h, props[i][2])
       IN deepCloneProps(c.h, props, isArr, i + 1,
                         Append(acc, <<props[i][1], c.v>>))

\* ------------------------------------------------------------------------
\* utils: setNestedValue, getNestedValue (the path addressor)
\* ------------------------------------------------------------------------

\* The code is compiled as a module, hence strict: an assignment to a
\* property of a primitive raises a TypeError.  A failed call keeps the
\* containers it created before it failed.
SetOk(h) == [h |-> h, threw |-> FALSE]
SetThrew(h) == [h |-> h, threw |-> TRUE]

\* container[key] = a fresh cell; returns the heap and the fresh reference.
PutFresh(h, container, key, cell) ==
  LET r == Len(h) + 1
  IN [h |-> [Append(h, cell) EXCEPT ![container.r] =
                PutProp(h[container.r], key, RefV(r))],
      v |-> RefV(r)]

RECURSIVE setLoop(_, _, _, _, _)
\* The loop over parts[0 .. length-2] and the write of the last part;
\* current is the value the walk stands on.
setLoop(h, current, parts, i, value) ==
  LET part == parts[i]
      m == arrayMatch(part)
      last == i = Len(parts)
  IN
  IF m.matched
  THEN LET key == m.arrayKey
           idx == ToDecimal(m.index)
           a0 == GetProp(h, current, key)
       IN IF ~Truthy(a0) /\ ~IsRef(current) THEN SetThrew(h)
          ELSE LET s1 == IF Truthy(a0) THEN [h |-> h, v |-> a0]
                         ELSE PutFresh(h, current, key, EmptyArr)
                   a == s1.v
               IN IF last
                  THEN IF IsRef(a)
                       THEN SetOk([s1.h EXCEPT ![a.r] = PutProp(s1.h[a.r], idx, value)])
                       ELSE SetThrew(s1.h)
                  ELSE LET e0 == GetProp(s1.h, a, idx)
                       IN IF Truthy(e0) THEN setLoop(s1.h, e0, parts, i + 1, value)
                          ELSE IF ~IsRef(a) THEN SetThrew(s1.h)
                          ELSE LET s2 == PutFresh(s1.h, a, idx, EmptyObj)
                               IN setLoop(s2.h, s2.v, parts, i + 1, value)
  ELSE IF last
       THEN IF IsRef(current)
            THEN SetOk([h EXCEPT ![current.r] = PutProp(h[current.r], part, value)])
            ELSE SetThrew(h)
       ELSE LET c0 == GetProp(h, current, part)
            IN IF Truthy(c0) THEN setLoop(h, c0, parts, i + 1, value)
               ELSE IF ~IsRef(current) THEN SetThrew(h)
               ELSE LET s1 == PutFresh(h, current, part, EmptyObj)
                    IN setLoop(s1.h, s1.v, parts, i + 1, value)

\* A mutant of setNestedValue: the path is used as one key of the root.
setNestedValueFlat(h, obj, path, value) ==
  SetOk([h EXCEPT ![obj.r] = PutProp(h[obj.r], path, value)])

setNestedValue(h, obj, path, value) == setLoop(h, obj, split(path), 1, value)

RECURSIVE getLoop(_, _, _, _)
getLoop(h, current, parts, i) ==
  IF i > Len(parts) THEN current
  ELSE IF isNullish(current) THEN Undef
  ELSE LET m == arrayMatch(parts[i])
       IN IF m.matched
          THEN LET a == GetProp(h, current, m.arrayKey)
               IN IF IsArray(h, a)
                  THEN getLoop(h, GetProp(h, a, ToDecimal(m.index)), parts, i + 1)
                  ELSE Undef
          ELSE getLoop(h, GetProp(h, current, parts[i]), parts, i + 1)

getNestedValue(h, obj, path) == getLoop(h, obj, split(path), 1)

\* ------------------------------------------------------------------------
\* utils: extractEmptyFields (the field extractor)
\* ------------------------------------------------------------------------

NoParent == Undef

\* `${path}.${key}` when path is non-empty, else key.
JoinPath(path, key) == IF path # <<>> THEN path \o <<".">> \o key ELSE key

\* A mutant of IndexedPath: the index is joined with a dot.
IndexedPathDotted(currentPath, index) ==
  currentPath \o <<".">> \o ToDecimal(index)

\* `${currentPath}[${index}]`
IndexedPath(currentPath, index) ==
  currentPath \o <<"[">> \o ToDecimal(index) \o <<"]">>

FieldInfo(h, key, path, value, parentKey) ==
  [key |-> key, path |-> path, value |-> value,
   type |-> getValueType(h, value), parentKey |-> parentKey,
   isNull |-> value.t = "null", isEmpty |-> isEmpty(h, value),
   isUndefined |-> value.t = "undefined"]

\* A mutant of the test below: every falsy value counts as missing.
needsFillFalsy(fieldInfo, value) == ~Truthy(value)

\* fieldInfo.isNull || fieldInfo.isUndefined ||
\*   (typeof value === 'string' && value === '')
needsFill(fieldInfo, value) ==
  \/ fieldInfo.isNull
  \/ fieldInfo.isUndefined
  \/ (value.t = "string" /\ value.s = <<>>)

RECURSIVE extractItems(_, _, _, _, _)
RECURSIVE extractProps(_, _, _, _, _)
\* for (const key in obj) over the own properties of obj, in order.
extractProps(h, obj, path, parentKey, i) ==
  IF i > Len(h[obj.r].props) THEN <<>>
  ELSE LET key == h[obj.r].props[i][1]
           value == h[obj.r].props[i][2]
           currentPath == JoinPath(path, key)
           valueType == getValueType(h, value)
           fieldInfo == FieldInfo(h, key, currentPath, value, parentKey)
           here ==
             IF needsFill(fieldInfo, value)
             THEN <<fieldInfo>>
             ELSE IF valueType = "object"
             THEN extractProps(h, value, currentPath, StrV(key), 1)
             ELSE IF valueType = "array"
             THEN IF ArrayLength(h[value.r]) = 0 THEN <<fieldInfo>>
                  ELSE extractItems(h, value, currentPath, key, 1)
             ELSE <<>>
       IN here \o extractProps(h, obj, path, parentKey, i + 1)

\* value.forEach((item, index) => ...): the index properties that are
\* present, ascending; an item that is an object or an array is walked.
extractItems(h, arr, currentPath, key, i) ==
  IF i > Len(h[arr.r].props) THEN <<>>
  ELSE LET k == h[arr.r].props[i][1]
           item == h[arr.r].props[i][2]
           here ==
             IF IsIndexKey(k) /\ IsRef(item)
             THEN extractProps(h, item, IndexedPath(currentPath, parseInt(k)),
                               StrV(key), 1)
             ELSE <<>>
       IN here \o extractItems(h, arr, currentPath, key, i + 1)

extractEmptyFields(h, obj) == extractProps(h, obj, <<>>, NoParent, 1)

\* ------------------------------------------------------------------------
\* utils: simpleHash;  cache: generateKey, get, set, clear
\* ------------------------------------------------------------------------

\* ToInt32 of 31 * hash + char, computed on 16-bit halves so that no
\* intermediate result leaves the 32-bit range:
\* hash = ((hash << 5) - hash) + char; hash = hash & hash.
HashStep(hash, char) ==
  LET hi == hash \div 65536
      lo == hash % 65536
      t == 31 * lo + char
      hiFull == 31 * hi + (t \div 65536)
      hiWrapped == ((hiFull + 32768) % 65536) - 32768
  IN hiWrapped * 65536 + (t % 65536)

RECURSIVE HashLoop(_, _, _)
HashLoop(str, i, hash) ==
  IF i > Len(str) THEN hash
  ELSE HashLoop(str, i + 1, HashStep(hash, CharCode(str[i])))

Base36 == <<"0", "1", "2", "3", "4", "5", "6", "7", "8", "9",
            "a", "b", "c", "d", "e", "f", "g", "h", "i", "j", "k", "l", "m",
            "n", "o", "p", "q", "r", "s", "t", "u", "v", "w", "x", "y", "z">>

RECURSIVE ToBase36(_)
\* n.toString(36) for a non-negative integer.
ToBase36(n) ==
  IF n < 36 THEN <<Base36[n + 1]>>
  ELSE Append(ToBase36(n \div 36), Base36[(n % 36) + 1])

\* Math.abs(hash).toString(36); Math.abs(-2^31) is 2^31, "zik0zk".
simpleHash(str) ==
  LET hash == HashLoop(str, 1, 0)
  IN IF hash = -2147483647 - 1 THEN <<"z", "i", "k", "0", "z", "k">>
     ELSE ToBase36(IF hash < 0 THEN -hash ELSE hash)

RECURSIVE StrLess(_, _)
\* a < b by UTF-16 code units: the order of Array.prototype.sort().
StrLess(a, b) ==
  IF b = <<>> THEN FALSE
  ELSE IF a = <<>> THEN TRUE
  ELSE IF CharCode(Head(a)) # CharCode(Head(b))
  THEN CharCode(Head(a)) < CharCode(Head(b))
  ELSE StrLess(Tail(a), Tail(b))

RECURSIVE InsertSorted(_, _)
InsertSorted(sorted, x) ==
  IF sorted = <<>> THEN <<x>>
  ELSE IF StrLess(x, Head(sorted)) THEN <<x>> \o sorted
  ELSE <<Head(sorted)>> \o InsertSorted(Tail(sorted), x)

RECURSIVE SortStrings(_)
SortStrings(strs) ==
  IF strs = <<>> THEN <<>>
  ELSE InsertSorted(SortStrings(SubSeq(strs, 1, Len(strs) - 1)), strs[Len(strs)])

RECURSIVE JoinStrings(_, _)
JoinStrings(strs, sep) ==
  IF strs = <<>> THEN <<>>
  ELSE IF Len(strs) = 1 THEN strs[1]
  ELSE strs[1] \o sep \o JoinStrings(Tail(strs), sep)

\* config.prefix ?? 'sjm_'
CachePrefix == <<"s", "j", "m", "_">>

\* A mutant of generateKey: the strings are joined in the order of the
\* fields.
generateKeyUnsorted(fields) ==
  CachePrefix
    \o simpleHash(JoinStrings([i \in 1..Len(fields) |->
                                 fields[i].path \o <<":">> \o fields[i].key],
                              <<"|">>))

\* fields.map(f => `${f.path}:${f.key}`).sort().join('|'), hashed.
generateKey(fields) ==
  LET keyString ==
        JoinStrings(SortStrings([i \in 1..Len(fields) |->
                                   fields[i].path \o <<":">> \o fields[i].key]),
                    <<"|">>)
  IN CachePrefix \o simpleHash(keyString)

\* config.ttl ?? 86400 (seconds)
DefaultTtl == 86400

\* The cache is a map from key to [value, timestamp, ttl].
NoCache == [k \in {} |-> Undef]

\* A mutant of cacheGet: every lookup is a miss.
cacheGetMiss(enabled, c, key, time) == [cache |-> c, value |-> Null]

\* A mutant of cacheGet: the age of the entry is not looked at.
cacheGetAnyAge(enabled, c, key, time) ==
  IF ~enabled \/ key \notin DOMAIN c THEN [cache |-> c, value |-> Null]
  ELSE [cache |-> c, value |-> c[key].value]

\* A mutant of cacheGet: an expired entry is a miss and is left in place.
cacheGetKeepExpired(enabled, c, key, time) ==
  IF ~enabled \/ key \notin DOMAIN c THEN [cache |-> c, value |-> Null]
  ELSE IF time > c[key].timestamp + c[key].ttl * 1000
  THEN [cache |-> c, value |-> Null]
  ELSE [cache |-> c, value |-> c[key].value]

\* CacheManager.get: [cache, value]; value is Null on a miss.  An expired
\* entry is deleted by the get that finds it.
cacheGet(enabled, c, key, time) ==
  IF ~enabled THEN [cache |-> c, value |-> Null]
  ELSE IF key \notin DOMAIN c THEN [cache |-> c, value |-> Null]
  ELSE IF time > c[key].timestamp + c[key].ttl * 1000
  THEN [cache |-> [k \in DOMAIN c \ {key} |-> c[k]], value |-> Null]
  ELSE [cache |-> c, value |-> c[key].value]

\* A mutant of cacheSet: an entry already stored is kept.
cacheSetIfAbsent(enabled, c, key, value, ttl, time) ==
  IF ~enabled \/ key \in DOMAIN c THEN c
  ELSE [k \in DOMAIN c \cup {key} |->
          IF k = key
          THEN [value |-> value, timestamp |-> time,
                ttl |-> IF isNullish(ttl) THEN DefaultTtl ELSE ttl.n]
          ELSE c[k]]

\* CacheManager.set: the entry has the time of the call and the ttl
\* given, ttl ?? config.ttl.
cacheSet(enabled, c, key, value, ttl, time) ==
  IF ~enabled THEN c
  ELSE [k \in DOMAIN c \cup {key} |->
          IF k = key
          THEN [value |-> value, timestamp |-> time,
                ttl |-> IF isNullish(ttl) THEN DefaultTtl ELSE ttl.n]
          ELSE c[k]]

\* CacheManager.delete
cacheDelete(c, key) == [k \in DOMAIN c \ {key} |-> c[k]]

\* CacheManager.loadFromStorage: of the stored entries those not expired
\* at the time of the construction.
loadFromStorage(stored, time) ==
  [k \in {j \in DOMAIN stored :
            time <= stored[j].timestamp + stored[j].ttl * 1000} |-> stored[k]]

\* ------------------------------------------------------------------------
\* Overrides
\* ------------------------------------------------------------------------

\* A FieldOverrideValue: a primitive, a function, or a configuration
\* object whose generator / value / enum members may each be present.
LitO(v) == [k |-> "lit", v |-> v]
FnO(ret) == [k |-> "fn", ret |-> ret]
CfgO(hasGenerator, hasValue, hasEnum, ret, value, enum) ==
  [k |-> "cfg", hasGenerator |-> hasGenerator, hasValue |-> hasValue,
   hasEnum |-> hasEnum, ret |-> ret, value |-> value, enum |-> enum]
EnumO(enum) == CfgO(FALSE, FALSE, TRUE, Undef, Undef, enum)
ValueO(v) == CfgO(FALSE, TRUE, FALSE, Undef, v, <<>>)

\* Math.random() takes the values rnd / RandMax, rnd in 0 .. RandMax - 1.
RandMax == 2
Rnd == 0..(RandMax - 1)

\* arr[Math.floor(Math.random() * arr.length)]; undefined when arr is empty.
SampleAt(arr, rnd) ==
  LET i == (rnd * Len(arr)) \div RandMax
  IN IF i + 1 \in 1..Len(arr) THEN arr[i + 1] ELSE Undef

\* SmartMocker.resolveOverride: a function is called; of a configuration
\* object the generator, else the value, else a sample of the enum is
\* taken; anything else is returned as it is.
resolveOverride(override, rnd) ==
  CASE override.k = "fn" -> override.ret
    [] override.k = "lit" -> override.v
    [] OTHER ->
         IF override.hasGenerator THEN override.ret
         ELSE IF override.hasValue THEN override.value
         ELSE IF override.hasEnum THEN SampleAt(override.enum, rnd)
         ELSE [t |-> "config", o |-> override]

\* A mutant of the merge: the mocker-wide entries are spread last.
mergeOverridesReversed(own, perCall) ==
  LET RECURSIVE Put(_, _, _)
      Put(acc, src, i) ==
        IF i > Len(src) THEN acc
        ELSE Put(PutProp(acc, src[i][1], src[i][2]), src, i + 1)
  IN Put(Put(EmptyObj, perCall, 1), own, 1).props

\* { ...this.overrides, ...options.overrides }: a fresh object holding the
\* mocker-wide entries, then the per-call entries written over them.
mergeOverrides(own, perCall) ==
  LET RECURSIVE Put(_, _, _)
      Put(acc, src, i) ==
        IF i > Len(src) THEN acc
        ELSE Put(PutProp(acc, src[i][1], src[i][2]), src, i + 1)
  IN Put(Put(EmptyObj, own, 1), perCall, 1).props

\* overrides[key], or Undef when the key is absent.
OverrideOf(ovs, key) ==
  LET i == PropIndex(ovs, key, 1)
  IN IF i = 0 THEN Undef ELSE ovs[i][2]

HasOverride(ovs, key) == PropIndex(ovs, key, 1) # 0

RECURSIVE hasNestedKey(_, _, _)
\* SmartMocker.hasNestedKey: some object at any depth has the own key.
hasNestedKey(h, obj, key) ==
  \E i \in 1..Len(h[obj.r].props) :
    \/ h[obj.r].props[i][1] = key
    \/ /\ IsRef(h[obj.r].props[i][2])
       /\ hasNestedKey(h, h[obj.r].props[i][2], key)

\* One iteration of the loop of applyOverrides on the clone `result`; st is
\* [h, threw] as left by the iterations before.
applyEntry(st, result, key, value) ==
  IF st.threw THEN st
  ELSE IF HasProp(st.h[result.r], key) \/ hasNestedKey(st.h, result, key)
  THEN IF \E j \in 1..Len(key) : key[j] = "."
       THEN setNestedValue(st.h, result, key, value)
       ELSE SetOk([st.h EXCEPT ![result.r] = PutProp(st.h[result.r], key, value)])
  ELSE st

RECURSIVE applyLoop(_, _, _, _, _)
\* for (const [key, override] of Object.entries(overrides)) on the clone.
applyLoop(st, result, ovs, i, rnd) ==
  IF i > Len(ovs) THEN st
  ELSE applyLoop(applyEntry(st, result, ovs[i][1],
                            resolveOverride(ovs[i][2], rnd)),
                 result, ovs, i + 1, rnd)

\* return result
applyReturn(st, result) == [h |-> st.h, v |-> result, threw |-> st.threw]

\* applyOverrides once data has been cloned: [h, v, threw]
applyToClone(c, ovs, rnd) ==
  applyReturn(applyLoop(SetOk(c.h), c.v, ovs, 1, rnd), c.v)

\* SmartMocker.applyOverrides: [h, v, threw]
applyOverrides(h, data, ovs, rnd) == applyToClone(deepClone(h, data), ovs, rnd)

\* ------------------------------------------------------------------------
\* utils: retry;  providers/gemini: the collaborator's adapter
\* ------------------------------------------------------------------------

\* this.config.ai.maxRetries ?? 3
DefaultMaxRetries == 3

\* retry's baseDelay default (milliseconds)
BaseDelay == 1000

RECURSIVE Pow2(_)
Pow2(n) == IF n = 0 THEN 1 ELSE 2 * Pow2(n - 1)

Resolved(value) == [rejected |-> FALSE, value |-> value]
Rejected(error) == [rejected |-> TRUE, error |-> error]

\* A mutant of retryOnSettle: retry waits after the last attempt too.
retryOnSettleWaitsLast(attempt, maxRetries, settled) ==
  IF ~settled.rejected
  THEN [st |-> "return", value |-> settled.value]
  ELSE [st |-> "sleep", delay |-> BaseDelay * Pow2(attempt), error |-> settled.error]

\* What retry does when attempt number `attempt` (from 0) of fn settles:
\* it returns the value of a resolved attempt; after a rejected one it
\* sleeps baseDelay * 2^attempt and tries again, or, after the last
\* attempt, throws the last error.
retryOnSettle(attempt, maxRetries, settled) ==
  IF ~settled.rejected
  THEN [st |-> "return", value |-> settled.value]
  ELSE IF attempt < maxRetries - 1
  THEN [st |-> "sleep", delay |-> BaseDelay * Pow2(attempt), error |-> settled.error]
  ELSE [st |-> "throw", error |-> settled.error]

Failure == [success |-> FALSE, data |-> Undef]
Success(data) == [success |-> TRUE, data |-> data]

\* What the remote service does with one request: it times out, fails,
\* or answers with text; text is either unparseable or spells a JSON value.
RawTimeout == [k |-> "timeout"]
RawError == [k |-> "error"]
RawGarbage == [k |-> "garbage"]
RawJson(lit) == [k |-> "json", lit |-> lit]

\* GeminiProvider.generateForFields: every failure inside the try block
\* is caught and reported as {success: false}; the promise never rejects.
\* Unparseable text parses to the fallback {}, and a mapping without keys
\* is a failure too.
geminiGenerateForFields(h, raw) ==
  IF raw.k # "json" THEN [h |-> h, settled |-> Resolved(Failure)]
  ELSE LET d == Load(h, raw.lit)
       IN IF ~IsRef(d.v) \/ d.h[d.v.r].props = <<>>
          THEN [h |-> h, settled |-> Resolved(Failure)]
          ELSE [h |-> d.h, settled |-> Resolved(Success(d.v))]

\* GeminiProvider.generateFromSchema: as above, but any text that parses
\* is a success, whatever it spells.
geminiGenerateFromSchema(h, raw) ==
  IF raw.k # "json" THEN [h |-> h, settled |-> Resolved(Failure)]
  ELSE LET d == Load(h, raw.lit)
       IN [h |-> d.h, settled |-> Resolved(Success(d.v))]

\* ------------------------------------------------------------------------
\* Inputs of the model
\* ------------------------------------------------------------------------

MaxCalls == 2
MaxTicks == 1
MaxOverrideOps == 1

Calls == 1..MaxCalls

sA == <<"a">>
sB == <<"b">>
sS == <<"s">>
sU == <<"u">>
sX == <<"x">>
sUA == <<"u", ".", "a">>

\* Records handed to fill.
RecComplete ==
  ObjL(<< <<sA, NumV(0)>>,
          <<sU, ObjL(<< <<sB, BoolV(FALSE)>> >>)>>,
          <<sS, ArrL(<<StrV(sX)>>)>> >>)
RecFlat == ObjL(<< <<sA, Null>> >>)
RecNested ==
  ObjL(<< <<sU, ObjL(<< <<sA, Null>> >>)>>, <<sB, StrV(<<>>)>> >>)

Records == {RecComplete, RecFlat, RecNested}

\* Override sets a caller can pass or register.
OvNone == <<>>
OvEnum == << <<sA, EnumO(<<StrV(sX), StrV(<<"y">>)>>)>> >>
OvEmptyEnum == << <<sA, EnumO(<<>>)>> >>
OvBoth == << <<sUA, ValueO(StrV(<<"y">>))>>, <<sA, ValueO(StrV(sX))>> >>

NoOptions ==
  [overrides |-> OvNone, nullOnly |-> FALSE, undefinedOnly |-> FALSE,
   emptyStringsOnly |-> FALSE]

FillOptions ==
  {NoOptions,
   [NoOptions EXCEPT !.nullOnly = TRUE],
   [NoOptions EXCEPT !.overrides = OvBoth]}

GenerateOptions ==
  {[NoOptions EXCEPT !.overrides = OvEmptyEnum],
   [NoOptions EXCEPT !.overrides = OvBoth]}

\* What addOverride is called with.
AddChoices == {OvEnum[1]}

\* The mappings the remote service may answer a field request with: all
\* requested paths, all but the first, all and one that was not requested,
\* or none; every entry holds the same value.
ResponseValues == {StrV(sX), StrV(<<"z">>)}

MappingOf(fields, from, value, extra) ==
  ObjL([i \in 1..(Len(fields) - from + 1) |-> <<fields[i + from - 1].path, value>>]
       \o extra)

FieldResponses(fields) ==
  {RawTimeout, RawGarbage, RawJson(ObjL(<<>>))}
    \cup {RawJson(MappingOf(fields, 1, v, <<>>)) : v \in ResponseValues}
    \cup {RawJson(MappingOf(fields, 2, StrV(sX), <<>>)),
          RawJson(MappingOf(fields, 1, StrV(sX), << <<sX, StrV(sX)>> >>))}

\* What the remote service may answer a schema request with.
GenNested == ObjL(<< <<sU, ObjL(<< <<sA, StrV(<<"g">>)>> >>)>> >>)
GenFlat == ObjL(<< <<sA, StrV(<<"g">>)>> >>)

SchemaResponses ==
  {RawTimeout, RawJson(GenNested), RawJson(ArrL(<<GenFlat, GenNested>>))}

\* ------------------------------------------------------------------------
\* State
\* ------------------------------------------------------------------------

VARIABLES
  heap,        \* the cells of every object and array alive
  cfg,         \* SmartMockerConfig: cache.enabled, ai.maxRetries
  overrides,   \* SmartMocker.overrides
  overrideOps, \* addOverride / removeOverride calls made so far
  cache,       \* CacheManager.cache
  now,         \* Date.now(), milliseconds since the mocker was built
  ticks,       \* clock advances made so far
  calls,       \* the fill / generate / generateMany calls, by slot
  addr,        \* a direct use of the path addressor and the field extractor
  reg,         \* a direct use of the pattern registry and the local provider
  cacheCall,   \* the last direct call of the cache: what it was given and gave
  net,         \* a call through a fetch wrapper or an axios interceptor
  setup,       \* the default instance of the module and the call that set it up
  rt           \* a direct call of retry: its loop and what it has done so far

vars ==
  <<heap, cfg, overrides, overrideOps, cache, now, ticks, calls, addr, reg,
    cacheCall, net, setup, rt>>

IdleCall ==
  [kind |-> "none", pc |-> "idle", lit |-> Undef, obj |-> Undef,
   cloned |-> Undef, opts |-> NoOptions, merged |-> <<>>, fields |-> <<>>,
   cacheKey |-> <<>>, consulted |-> FALSE, attempt |-> 0, sent |-> <<>>,
   aiResult |-> Failure, result |-> Undef, error |-> "", rnd |-> 0]

IdleReg ==
  [pc |-> "idle", key |-> <<>>, type |-> "", found |-> "", source |-> ""]

\* No direct call of the cache yet; prior is the entry the call found.
NoEntry == [value |-> Undef, timestamp |-> 0, ttl |-> 0, stored |-> FALSE]
IdleCacheCall ==
  [op |-> "none", key |-> <<>>, value |-> Undef, ttl |-> Undef, got |-> Undef,
   prior |-> NoEntry]

\* The module as it is loaded: no default instance, quickSetup not called.
IdleSetup ==
  [pc |-> "none", entry |-> "", apiKey |-> Undef, threw |-> FALSE,
   error |-> "", instance |-> FALSE]

\* No call through an adapter.
IdleNet == [pc |-> "idle"]

\* No direct call of retry.
IdleRetry ==
  [pc |-> "idle", maxRetries |-> 0, attempt |-> 0, invoked |-> 0,
   settled |-> <<>>, slept |-> <<>>, lastError |-> Undef, value |-> Undef,
   error |-> Undef]

IdleAddr ==
  [pc |-> "idle", lit |-> Undef, obj |-> Undef, path |-> <<>>,
   value |-> Undef, threw |-> FALSE, got |-> Undef, fields |-> <<>>,
   pick |-> 0]

maxRetries == IF cfg.hasMaxRetries THEN cfg.maxRetries ELSE DefaultMaxRetries

Configs ==
  {[cacheEnabled |-> e, hasMaxRetries |-> FALSE, maxRetries |-> 0] :
     e \in BOOLEAN}

Init ==
  /\ heap = <<>>
  /\ cfg \in Configs
  /\ overrides = OvNone
  /\ overrideOps = 0
  /\ cache = NoCache
  /\ now = 0
  /\ ticks = 0
  /\ calls = [i \in Calls |-> IdleCall]
  /\ addr = IdleAddr
  /\ reg = IdleReg
  /\ cacheCall = IdleCacheCall
  /\ net = IdleNet
  /\ setup = IdleSetup
  /\ rt = IdleRetry

\* ------------------------------------------------------------------------
\* SmartMocker.fill
\* ------------------------------------------------------------------------

\* A mutant of filterFields: a descriptor is kept when it satisfies any of
\* the options that are set.
filterFieldsAny(fields, opts) ==
  IF ~(opts.nullOnly \/ opts.undefinedOnly \/ opts.emptyStringsOnly)
  THEN fields
  ELSE SelectSeq(fields, LAMBDA f :
         \/ opts.nullOnly /\ f.isNull
         \/ opts.undefinedOnly /\ f.isUndefined
         \/ opts.emptyStringsOnly /\ f.value.t = "string" /\ f.value.s = <<>>)

\* The three successive filters of fill.
filterFields(fields, opts) ==
  LET f1 == IF opts.nullOnly
            THEN SelectSeq(fields, LAMBDA f : f.isNull) ELSE fields
      f2 == IF opts.undefinedOnly
            THEN SelectSeq(f1, LAMBDA f : f.isUndefined) ELSE f1
  IN IF opts.emptyStringsOnly
     THEN SelectSeq(f2, LAMBDA f : f.value.t = "string" /\ f.value.s = <<>>)
     ELSE f2

\* The request a call hands to the provider.
Request(fields, ovs) ==
  [paths |-> [i \in 1..Len(fields) |-> fields[i].path],
   keys |-> [i \in 1..Len(fields) |-> fields[i].key],
   overrides |-> ovs]

\* fill up to its first await: clone, merge the overrides, extract, filter;
\* then generateWithAI up to its await: the cache lookup and the first
\* attempt of retry.
FillStart(i, lit, opts) ==
  /\ calls[i].pc = "idle"
  /\ \A j \in 1..(i - 1) : calls[j].pc # "idle"
  /\ LET ld == Load(heap, lit)
         cl == deepClone(ld.h, ld.v)
         merged == mergeOverrides(overrides, opts.overrides)
         fields == filterFields(extractEmptyFields(cl.h, cl.v), opts)
         base == [IdleCall EXCEPT !.kind = "fill", !.lit = lit, !.obj = ld.v,
                                  !.cloned = cl.v, !.opts = opts,
                                  !.merged = merged, !.fields = fields]
         key == generateKey(fields)
         got == cacheGet(cfg.cacheEnabled, cache, key, now)
     IN /\ heap' = cl.h
        /\ IF fields = <<>>
           THEN /\ calls' = [calls EXCEPT ![i] =
                               [base EXCEPT !.pc = "done", !.result = cl.v]]
                /\ UNCHANGED cache
           ELSE /\ cache' = got.cache
                /\ calls' = [calls EXCEPT ![i] =
                     IF Truthy(got.value)
                     THEN [base EXCEPT !.pc = "merge", !.cacheKey = key,
                                       !.consulted = TRUE,
                                       !.aiResult = Success(got.value)]
                     ELSE IF 0 < maxRetries
                     THEN [base EXCEPT !.pc = "awaitAI", !.cacheKey = key,
                                       !.consulted = TRUE,
                                       !.sent = <<Request(fields, merged)>>]
                     ELSE [base EXCEPT !.pc = "rejected", !.cacheKey = key,
                                       !.consulted = TRUE,
                                       !.error = "undefined"]]
  /\ UNCHANGED <<cfg, overrides, overrideOps, now, ticks, addr, reg, cacheCall, net, setup, rt>>

\* The provider's promise settles; retry and the rest of generateWithAI
\* run: a successful result is cached and returned, anything else throws.
AIRespond(i, raw) ==
  /\ calls[i].pc = "awaitAI"
  /\ LET c == calls[i]
         g == geminiGenerateForFields(heap, raw)
         r == retryOnSettle(c.attempt, maxRetries, g.settled)
     IN IF r.st = "return"
        THEN IF r.value.success /\ Truthy(r.value.data)
             THEN /\ heap' = g.h
                  /\ cache' = cacheSet(cfg.cacheEnabled, cache, c.cacheKey,
                                       r.value.data, Undef, now)
                  /\ calls' = [calls EXCEPT ![i] =
                       [c EXCEPT !.pc = "merge", !.aiResult = r.value]]
             ELSE /\ calls' = [calls EXCEPT ![i] =
                       [c EXCEPT !.pc = "rejected",
                                 !.error = "Failed to generate data with AI provider"]]
                  /\ UNCHANGED <<heap, cache>>
        ELSE /\ calls' = [calls EXCEPT ![i] =
                  IF r.st = "sleep"
                  THEN [c EXCEPT !.pc = "backoff"]
                  ELSE [c EXCEPT !.pc = "rejected", !.error = r.error]]
             /\ UNCHANGED <<heap, cache>>
  /\ UNCHANGED <<cfg, overrides, overrideOps, now, ticks, addr, reg, cacheCall, net, setup, rt>>

RECURSIVE mergeEntries(_, _, _, _)
\* for (const [path, value] of Object.entries(aiResult.data))
\*   setNestedValue(cloned, path, value)
mergeEntries(h, cloned, data, i) ==
  IF i > Len(h[data.r].props) THEN SetOk(h)
  ELSE LET w == setNestedValue(h, cloned, h[data.r].props[i][1],
                               h[data.r].props[i][2])
       IN IF w.threw THEN w ELSE mergeEntries(w.h, cloned, data, i + 1)

\* fill after generateWithAI has resolved: the merge and the return.
FillMerge(i) ==
  /\ calls[i].pc = "merge"
  /\ LET c == calls[i]
         w == IF c.aiResult.success /\ Truthy(c.aiResult.data)
              THEN mergeEntries(heap, c.cloned, c.aiResult.data, 1)
              ELSE SetOk(heap)
     IN /\ heap' = w.h
        /\ calls' = [calls EXCEPT ![i] =
             IF w.threw THEN [c EXCEPT !.pc = "rejected", !.error = "TypeError"]
             ELSE [c EXCEPT !.pc = "done", !.result = c.cloned]]
  /\ UNCHANGED <<cfg, overrides, overrideOps, cache, now, ticks, addr, reg, cacheCall, net, setup, rt>>

\* ------------------------------------------------------------------------
\* SmartMocker.generate, generateMany
\* ------------------------------------------------------------------------

GenerateStart(i, many, opts) ==
  /\ calls[i].pc = "idle"
  /\ \A j \in 1..(i - 1) : calls[j].pc # "idle"
  /\ LET merged == mergeOverrides(overrides, opts.overrides)
         base == [IdleCall EXCEPT
                    !.kind = IF many THEN "generateMany" ELSE "generate",
                    !.opts = opts, !.merged = merged]
     IN calls' = [calls EXCEPT ![i] =
          IF 0 < maxRetries
          THEN [base EXCEPT !.pc = "awaitGen", !.sent = <<Request(<<>>, <<>>)>>]
          ELSE [base EXCEPT !.pc = "rejected", !.error = "undefined"]]
  /\ UNCHANGED <<heap, cfg, overrides, overrideOps, cache, now, ticks, addr, reg, cacheCall, net, setup, rt>>

\* applyOverrides on a value that may be a primitive: the in operator
\* raises a TypeError on a primitive as soon as there is an override.
applyAny(h, data, ovs, rnd) ==
  IF IsRef(data) THEN applyOverrides(h, data, ovs, rnd)
  ELSE [h |-> h, v |-> data, threw |-> ovs # <<>>]

\* One call of the callback of data.map; acc is [h, props, threw] as left
\* by the calls before, applied is what applyOverrides made of the item.
mapStep(acc, key, applied) ==
  IF applied.threw THEN [h |-> applied.h, props |-> acc.props, threw |-> TRUE]
  ELSE [h |-> applied.h, props |-> Append(acc.props, <<key, applied.v>>),
        threw |-> FALSE]

RECURSIVE applyEach(_, _, _, _, _, _)
RECURSIVE applyEachFrom(_, _, _, _, _)
\* data.map(item => this.applyOverrides(item, mergedOverrides))
applyEach(h, items, ovs, rnd, i, acc) ==
  IF i > Len(items) THEN [h |-> h, props |-> acc, threw |-> FALSE]
  ELSE IF ~IsIndexKey(items[i][1])
  THEN applyEach(h, items, ovs, rnd, i + 1, acc)
  ELSE applyEachFrom(mapStep([h |-> h, props |-> acc, threw |-> FALSE],
                             items[i][1], applyAny(h, items[i][2], ovs, rnd)),
                     items, ovs, rnd, i)

\* data.map goes on after item i unless its callback threw.
applyEachFrom(st, items, ovs, rnd, i) ==
  IF st.threw THEN st ELSE applyEach(st.h, items, ovs, rnd, i + 1, st.props)

\* The rejection of generate and generateMany on an unsuccessful result.
generateFailed(h, c) ==
  [h |-> h,
   call |-> [c EXCEPT !.pc = "rejected", !.error = "Failed to generate mock data"]]

\* What generate and generateMany settle with once the overrides have been
\* applied: applied is [h, v, threw].
generateSettled(c, value, rnd, applied) ==
  [h |-> applied.h,
   call |-> IF applied.threw
            THEN [c EXCEPT !.pc = "rejected", !.error = "TypeError",
                           !.aiResult = value, !.rnd = rnd]
            ELSE [c EXCEPT !.pc = "done", !.aiResult = value,
                           !.result = applied.v, !.rnd = rnd]]

\* generate after retry has returned: the success test and applyOverrides.
generateFinish(h, c, value, rnd) ==
  IF ~(value.success /\ Truthy(value.data)) THEN generateFailed(h, c)
  ELSE generateSettled(c, value, rnd, applyAny(h, value.data, c.merged, rnd))

\* The array data.map returns: a new cell holding the mapped items.
mapResult(all) ==
  IF all.threw THEN [h |-> all.h, v |-> Undef, threw |-> TRUE]
  ELSE [h |-> Append(all.h, [arr |-> TRUE, props |-> all.props]),
        v |-> RefV(Len(all.h) + 1), threw |-> FALSE]

\* generateMany after retry has returned: a single item is wrapped in an
\* array, and applyOverrides is mapped over the items.
generateManyFinish(h, c, value, rnd) ==
  IF ~(value.success /\ Truthy(value.data)) THEN generateFailed(h, c)
  ELSE generateSettled(c, value, rnd,
         mapResult(applyEach(h,
                             IF IsArray(h, value.data) THEN h[value.data.r].props
                             ELSE << <<ToDecimal(0), value.data>> >>,
                             c.merged, rnd, 1, <<>>)))

\* What the settling of the provider's promise makes of call c: retry
\* returns, sleeps or throws.
generateOnSettle(h, c, g, r, rnd) ==
  IF r.st = "sleep" THEN [h |-> h, call |-> [c EXCEPT !.pc = "backoff"]]
  ELSE IF r.st = "throw"
  THEN [h |-> h, call |-> [c EXCEPT !.pc = "rejected", !.error = r.error]]
  ELSE IF c.kind = "generate" THEN generateFinish(g.h, c, r.value, rnd)
  ELSE generateManyFinish(g.h, c, r.value, rnd)

\* The outcome o = [h, call] of a step of call i takes effect.
Settle(i, o) ==
  /\ heap' = o.h
  /\ calls' = [calls EXCEPT ![i] = o.call]

\* The provider's promise settles; retry returns and the overrides are
\* applied to the generated data.
GenRespond(i, raw, rnd) ==
  /\ calls[i].pc = "awaitGen"
  /\ Settle(i, generateOnSettle(heap, calls[i],
                                geminiGenerateFromSchema(heap, raw),
                                retryOnSettle(calls[i].attempt, maxRetries,
                                   geminiGenerateFromSchema(heap, raw).settled),
                                rnd))
  /\ UNCHANGED <<cfg, overrides, overrideOps, cache, now, ticks, addr, reg, cacheCall, net, setup, rt>>

\* ------------------------------------------------------------------------
\* addOverride, removeOverride, clearCache, the clock
\* ------------------------------------------------------------------------

AddOverride(key, value) ==
  /\ overrideOps < MaxOverrideOps
  /\ overrides' = PutProp([arr |-> FALSE, props |-> overrides], key, value).props
  /\ overrideOps' = overrideOps + 1
  /\ UNCHANGED <<heap, cfg, cache, now, ticks, calls, addr, reg, cacheCall, net, setup, rt>>

RemoveOverride(key) ==
  /\ overrideOps < MaxOverrideOps + 1
  /\ HasOverride(overrides, key)
  /\ overrides' = SelectSeq(overrides, LAMBDA e : e[1] # key)
  /\ overrideOps' = overrideOps + 1
  /\ UNCHANGED <<heap, cfg, cache, now, ticks, calls, addr, reg, cacheCall, net, setup, rt>>

ClearCache ==
  /\ cache # NoCache
  /\ cache' = NoCache
  /\ UNCHANGED <<heap, cfg, overrides, overrideOps, now, ticks, calls, addr, reg, cacheCall, net, setup, rt>>

\* Time passes.
Tick(step) ==
  /\ ticks < MaxTicks
  /\ now' = now + step
  /\ ticks' = ticks + 1
  /\ UNCHANGED <<heap, cfg, overrides, overrideOps, cache, calls, addr, reg, cacheCall, net, setup, rt>>

\* Long enough for an entry with the default ttl to expire.
TickSteps == {DefaultTtl * 1000 + 1}

\* One caller, awaiting each call before it makes the next.
Sequential(i) == \A j \in 1..(i - 1) : calls[j].pc \in {"done", "rejected"}

\* Fills by one caller, on a mocker whose overrides, cache and clock move.
Next ==
  \/ \E i \in Calls, lit \in Records, opts \in FillOptions :
       Sequential(i) /\ FillStart(i, lit, opts)
  \/ \E i \in Calls : \E raw \in FieldResponses(calls[i].fields) : AIRespond(i, raw)
  \/ \E i \in Calls : FillMerge(i)
  \/ \E e \in AddChoices : AddOverride(e[1], e[2])
  \/ ClearCache
  \/ \E step \in TickSteps : Tick(step)

Spec == Init /\ [][Next]_vars

\* One call of any kind, on a mocker whose overrides are edited.
NextAny ==
  \/ \E lit \in Records, opts \in FillOptions : FillStart(1, lit, opts)
  \/ \E raw \in FieldResponses(calls[1].fields) : AIRespond(1, raw)
  \/ FillMerge(1)
  \/ \E many \in BOOLEAN, opts \in GenerateOptions : GenerateStart(1, many, opts)
  \/ \E raw \in SchemaResponses, rnd \in Rnd : GenRespond(1, raw, rnd)
  \/ \E e \in AddChoices : AddOverride(e[1], e[2])
  \/ \E k \in {sA} : RemoveOverride(k)

SpecAny == Init /\ [][NextAny]_vars

\* ------------------------------------------------------------------------
\* The path addressor used on its own: setNestedValue, then getNestedValue
\* ------------------------------------------------------------------------

sAB == <<"a", ".", "b">>
sA0 == <<"a", "[", "0", "]">>
sA1 == <<"a", "[", "1", "]">>
sA0B == <<"a", "[", "0", "]", ".", "b">>
sAB0 == <<"a", ".", "b", "[", "0", "]">>
sABA == <<"a", ".", "b", ".", "a">>

\* Roots: a is absent, falsy, an object, an array, or a string.
AddrRoots ==
  {ObjL(<<>>),
   ObjL(<< <<sA, Null>> >>),
   ObjL(<< <<sA, ObjL(<<>>)>> >>),
   ObjL(<< <<sA, ArrL(<<>>)>> >>),
   ObjL(<< <<sA, StrV(sS)>> >>),
   ObjL(<< <<sA, ObjL(<< <<sB, NumV(0)>> >>)>> >>),
   ObjL(<< <<sA, ArrL(<<ObjL(<< <<sB, StrV(sS)>> >>)>>)>> >>)}

AddrPaths == {sA, sAB, sA0, sA1, sA0B, sAB0, sABA}

AddrValues == {StrV(sX), NumV(0), Undef}

\* A caller holds a root and is about to address a path of it.
InitAddr ==
  /\ cfg \in Configs
  /\ overrides = OvNone
  /\ overrideOps = 0
  /\ cache = NoCache
  /\ now = 0
  /\ ticks = 0
  /\ calls = [i \in Calls |-> IdleCall]
  /\ reg = IdleReg
  /\ cacheCall = IdleCacheCall
  /\ net = IdleNet
  /\ setup = IdleSetup
  /\ rt = IdleRetry
  /\ \E root \in AddrRoots, path \in AddrPaths, value \in AddrValues :
       /\ heap = Load(<<>>, root).h
       /\ addr = [IdleAddr EXCEPT !.pc = "ready", !.lit = root,
                                  !.obj = Load(<<>>, root).v,
                                  !.path = path, !.value = value]

\* The effect w = [h, threw] of the call of setNestedValue.
SetReturns(w) ==
  /\ heap' = w.h
  /\ addr' = [addr EXCEPT !.pc = "set", !.threw = w.threw]

\* setNestedValue(root, path, value)
SetNested ==
  /\ addr.pc = "ready"
  /\ SetReturns(setNestedValue(heap, addr.obj, addr.path, addr.value))
  /\ UNCHANGED <<cfg, overrides, overrideOps, cache, now, ticks, calls, reg, cacheCall, net, setup, rt>>

\* getNestedValue(root, path)
GetNested ==
  /\ addr.pc = "set"
  /\ addr' = [addr EXCEPT !.pc = "got",
                          !.got = getNestedValue(heap, addr.obj, addr.path)]
  /\ UNCHANGED <<heap, cfg, overrides, overrideOps, cache, now, ticks, calls, reg, cacheCall, net, setup, rt>>

NextAddr == SetNested \/ GetNested

SpecAddr == InitAddr /\ [][NextAddr]_vars

\* ------------------------------------------------------------------------
\* The field extractor used on its own: extractEmptyFields, then a
\* descriptor's path handed to getNestedValue and to setNestedValue
\* ------------------------------------------------------------------------

sDotted == <<"a", ".", "b">>
sBracketed == <<"s", "[", "0", "]">>

\* Records: flat and nested, arrays of objects, of arrays and of
\* primitives, falsy values that are not missing, and property names that
\* hold a "." or end in "[0]".
WalkRoots ==
  {RecComplete, RecFlat, RecNested,
   ObjL(<< <<sA, Null>>, <<sB, Null>> >>),
   ObjL(<< <<sB, Null>>, <<sA, Null>> >>),
   ObjL(<< <<sS, ArrL(<<ObjL(<< <<sA, Undef>> >>), StrV(sX),
                        ObjL(<< <<sB, StrV(<<>>)>> >>)>>)>>,
           <<sU, ArrL(<<>>)>> >>),
   ObjL(<< <<sS, ArrL(<<ArrL(<<Null>>), Null>>)>>, <<sA, ObjL(<<>>)>>,
           <<sB, StrV(<<" ">>)>> >>),
   ObjL(<< <<sDotted, Null>> >>),
   ObjL(<< <<sA, ObjL(<< <<sB, Null>> >>)>>, <<sDotted, StrV(<<>>)>> >>),
   ObjL(<< <<sBracketed, Null>>, <<sS, ArrL(<<StrV(sX)>>)>> >>)}

\* A caller holds a record and is about to extract its missing fields.
InitWalk ==
  /\ cfg \in Configs
  /\ overrides = OvNone
  /\ overrideOps = 0
  /\ cache = NoCache
  /\ now = 0
  /\ ticks = 0
  /\ calls = [i \in Calls |-> IdleCall]
  /\ reg = IdleReg
  /\ cacheCall = IdleCacheCall
  /\ net = IdleNet
  /\ setup = IdleSetup
  /\ rt = IdleRetry
  /\ \E root \in WalkRoots, value \in AddrValues :
       /\ heap = Load(<<>>, root).h
       /\ addr = [IdleAddr EXCEPT !.pc = "ready", !.lit = root,
                                  !.obj = Load(<<>>, root).v,
                                  !.value = value]

\* extractEmptyFields(root)
Extract ==
  /\ addr.pc = "ready"
  /\ addr' = [addr EXCEPT !.pc = "extracted",
                          !.fields = extractEmptyFields(heap, addr.obj)]
  /\ UNCHANGED <<heap, cfg, overrides, overrideOps, cache, now, ticks, calls, reg, cacheCall, net, setup, rt>>

\* getNestedValue(root, d.path) for one descriptor d of the walk
GetField(j) ==
  /\ addr.pc = "extracted"
  /\ addr' = [addr EXCEPT !.pc = "read", !.pick = j,
                          !.path = addr.fields[j].path,
                          !.got = getNestedValue(heap, addr.obj,
                                                 addr.fields[j].path)]
  /\ UNCHANGED <<heap, cfg, overrides, overrideOps, cache, now, ticks, calls, reg, cacheCall, net, setup, rt>>

\* The effect w = [h, threw] of setNestedValue(root, d.path, value).
FieldWritten(w) ==
  /\ heap' = w.h
  /\ addr' = [addr EXCEPT !.pc = "written", !.threw = w.threw]

\* setNestedValue(root, d.path, value) for the descriptor that was read
SetField ==
  /\ addr.pc = "read"
  /\ FieldWritten(setNestedValue(heap, addr.obj, addr.path, addr.value))
  /\ UNCHANGED <<cfg, overrides, overrideOps, cache, now, ticks, calls, reg, cacheCall, net, setup, rt>>

NextWalk ==
  \/ Extract
  \/ \E j \in 1..Len(addr.fields) : GetField(j)
  \/ SetField

SpecWalk == InitWalk /\ [][NextWalk]_vars

\* ------------------------------------------------------------------------
\* patterns: createMatcher, builtInPatterns, findPattern;
\* providers/local: the value of one field
\* ------------------------------------------------------------------------

UpperCase == <<"A", "B", "C", "D", "E", "F", "G", "H", "I", "J", "K", "L", "M",
               "N", "O", "P", "Q", "R", "S", "T", "U", "V", "W", "X", "Y", "Z">>
LowerCase == <<"a", "b", "c", "d", "e", "f", "g", "h", "i", "j", "k", "l", "m",
               "n", "o", "p", "q", "r", "s", "t", "u", "v", "w", "x", "y", "z">>

\* key.toLowerCase()
toLowerCase(key) ==
  [i \in 1..Len(key) |->
     IF \E n \in 1..26 : UpperCase[n] = key[i]
     THEN LowerCase[CHOOSE n \in 1..26 : UpperCase[n] = key[i]]
     ELSE key[i]]

\* k.includes(s), k.endsWith(s), k.startsWith(s)
includes(k, s) ==
  \E i \in 0..(Len(k) - Len(s)) : SubSeq(k, i + 1, i + Len(s)) = s
endsWith(k, s) ==
  Len(s) <= Len(k) /\ SubSeq(k, Len(k) - Len(s) + 1, Len(k)) = s
startsWith(k, s) == Len(s) <= Len(k) /\ SubSeq(k, 1, Len(s)) = s

\* A matcher as createMatcher is given it: its name, its priority, its
\* generator, and its predicate, which accepts a key that equals one of
\* eq, includes one of inc, ends with one of ends or starts with one of
\* starts, unless the key includes one of exc or equals one of neq.
Matcher(name, priority, generator, eq, inc, exc, ends, starts, neq) ==
  [name |-> name, priority |-> priority, generator |-> generator, eq |-> eq,
   inc |-> inc, exc |-> exc, ends |-> ends, starts |-> starts, neq |-> neq]

\* The predicate handed to createMatcher, on a key.
accepts(m, k) ==
  /\ \/ k \in m.eq
     \/ \E s \in m.inc : includes(k, s)
     \/ \E s \in m.ends : endsWith(k, s)
     \/ \E s \in m.starts : startsWith(k, s)
  /\ \A s \in m.exc : ~includes(k, s)
  /\ k \notin m.neq

\* The match of the matcher createMatcher returns:
\* (key) => match(key.toLowerCase())
match(m, key) == accepts(m, toLowerCase(key))

\* The array literal of builtInPatterns, before it is sorted.
builtInPatternsDeclared ==
  <<
   Matcher("uuid", 100, "uuid",
           {<<"u", "u", "i", "d">>, <<"g", "u", "i", "d">>},
           {}, {},
           {}, {}, {}),
   Matcher("id", 100, "id",
           {<<"i", "d">>, <<"_", "i", "d">>},
           {}, {},
           {}, {}, {}),
   Matcher("email", 100, "email",
           {<<"e", "m", "a", "i", "l">>, <<"m", "a", "i", "l">>},
           {}, {},
           {}, {}, {}),
   Matcher("phone", 100, "phone",
           {<<"p", "h", "o", "n", "e">>, <<"m", "o", "b", "i", "l", "e">>, <<"t", "e", "l", "e", "p", "h", "o", "n", "e">>},
           {}, {},
           {}, {}, {}),
   Matcher("avatar", 100, "avatar",
           {<<"a", "v", "a", "t", "a", "r">>, <<"p", "r", "o", "f", "i", "l", "e", "p", "i", "c", "t", "u", "r", "e">>, <<"p", "r", "o", "f", "i", "l", "e", "i", "m", "a", "g", "e">>},
           {}, {},
           {}, {}, {}),
   Matcher("username", 100, "username",
           {<<"u", "s", "e", "r", "n", "a", "m", "e">>, <<"l", "o", "g", "i", "n">>},
           {}, {},
           {}, {}, {}),
   Matcher("password", 100, "randomString",
           {<<"p", "a", "s", "s", "w", "o", "r", "d">>, <<"p", "a", "s", "s", "w", "d">>},
           {}, {},
           {}, {}, {}),
   Matcher("firstName", 90, "firstName",
           {<<"f", "i", "r", "s", "t", "n", "a", "m", "e">>, <<"f", "i", "r", "s", "t", "_", "n", "a", "m", "e">>, <<"g", "i", "v", "e", "n", "n", "a", "m", "e">>},
           {}, {},
           {}, {}, {}),
   Matcher("lastName", 90, "lastName",
           {<<"l", "a", "s", "t", "n", "a", "m", "e">>, <<"l", "a", "s", "t", "_", "n", "a", "m", "e">>, <<"s", "u", "r", "n", "a", "m", "e">>, <<"f", "a", "m", "i", "l", "y", "n", "a", "m", "e">>},
           {}, {},
           {}, {}, {}),
   Matcher("fullName", 85, "fullName",
           {<<"f", "u", "l", "l", "n", "a", "m", "e">>, <<"f", "u", "l", "l", "_", "n", "a", "m", "e">>, <<"n", "a", "m", "e">>, <<"d", "i", "s", "p", "l", "a", "y", "n", "a", "m", "e">>},
           {}, {},
           {}, {}, {}),
   Matcher("city", 90, "city",
           {<<"c", "i", "t", "y">>, <<"t", "o", "w", "n">>},
           {}, {},
           {}, {}, {}),
   Matcher("country", 90, "country",
           {<<"c", "o", "u", "n", "t", "r", "y">>, <<"n", "a", "t", "i", "o", "n">>},
           {}, {},
           {}, {}, {}),
   Matcher("street", 90, "street",
           {<<"s", "t", "r", "e", "e", "t">>, <<"s", "t", "r", "e", "e", "t", "n", "a", "m", "e">>},
           {}, {},
           {}, {}, {}),
   Matcher("zipCode", 90, "zipCode",
           {<<"z", "i", "p", "c", "o", "d", "e">>, <<"z", "i", "p">>, <<"p", "o", "s", "t", "a", "l", "c", "o", "d", "e">>, <<"p", "o", "s", "t", "a", "l">>},
           {}, {},
           {}, {}, {}),
   Matcher("address", 85, "address",
           {<<"a", "d", "d", "r", "e", "s", "s">>, <<"l", "o", "c", "a", "t", "i", "o", "n">>},
           {}, {},
           {}, {}, {}),
   Matcher("createdAt", 90, "datetime",
           {<<"c", "r", "e", "a", "t", "e", "d", "a", "t">>, <<"c", "r", "e", "a", "t", "e", "d", "_", "a", "t">>, <<"c", "r", "e", "a", "t", "i", "o", "n", "d", "a", "t", "e">>},
           {}, {},
           {}, {}, {}),
   Matcher("updatedAt", 90, "datetime",
           {<<"u", "p", "d", "a", "t", "e", "d", "a", "t">>, <<"u", "p", "d", "a", "t", "e", "d", "_", "a", "t">>, <<"m", "o", "d", "i", "f", "i", "e", "d", "a", "t">>},
           {}, {},
           {}, {}, {}),
   Matcher("deletedAt", 90, "datetime",
           {<<"d", "e", "l", "e", "t", "e", "d", "a", "t">>, <<"d", "e", "l", "e", "t", "e", "d", "_", "a", "t">>},
           {}, {},
           {}, {}, {}),
   Matcher("birthDate", 90, "date",
           {<<"b", "i", "r", "t", "h", "d", "a", "t", "e">>, <<"b", "i", "r", "t", "h", "d", "a", "y">>, <<"d", "o", "b">>, <<"d", "a", "t", "e", "o", "f", "b", "i", "r", "t", "h">>},
           {}, {},
           {}, {}, {}),
   Matcher("company", 90, "company",
           {<<"c", "o", "m", "p", "a", "n", "y">>, <<"o", "r", "g", "a", "n", "i", "z", "a", "t", "i", "o", "n">>, <<"o", "r", "g">>},
           {}, {},
           {}, {}, {}),
   Matcher("jobTitle", 85, "jobTitle",
           {<<"j", "o", "b", "t", "i", "t", "l", "e">>, <<"j", "o", "b", "_", "t", "i", "t", "l", "e">>, <<"t", "i", "t", "l", "e">>, <<"p", "o", "s", "i", "t", "i", "o", "n">>, <<"r", "o", "l", "e">>},
           {}, {},
           {}, {}, {}),
   Matcher("price", 90, "price",
           {<<"p", "r", "i", "c", "e">>, <<"c", "o", "s", "t">>, <<"a", "m", "o", "u", "n", "t">>},
           {}, {},
           {}, {}, {}),
   Matcher("quantity", 90, "quantity",
           {<<"q", "u", "a", "n", "t", "i", "t", "y">>, <<"q", "t", "y">>, <<"s", "t", "o", "c", "k">>},
           {}, {},
           {}, {}, {}),
   Matcher("sku", 90, "sku",
           {<<"s", "k", "u">>, <<"p", "r", "o", "d", "u", "c", "t", "c", "o", "d", "e">>},
           {}, {},
           {}, {}, {}),
   Matcher("category", 85, "category",
           {<<"c", "a", "t", "e", "g", "o", "r", "y">>, <<"t", "y", "p", "e">>},
           {}, {},
           {}, {}, {}),
   Matcher("color", 90, "color",
           {<<"c", "o", "l", "o", "r">>, <<"c", "o", "l", "o", "u", "r">>},
           {}, {},
           {}, {}, {}),
   Matcher("rating", 90, "rating",
           {<<"r", "a", "t", "i", "n", "g">>, <<"s", "c", "o", "r", "e">>, <<"s", "t", "a", "r", "s">>},
           {}, {},
           {}, {}, {}),
   Matcher("status", 90, "status",
           {<<"s", "t", "a", "t", "u", "s">>, <<"s", "t", "a", "t", "e">>},
           {}, {},
           {}, {}, {}),
   Matcher("description", 85, "description",
           {<<"d", "e", "s", "c", "r", "i", "p", "t", "i", "o", "n">>, <<"d", "e", "s", "c">>, <<"s", "u", "m", "m", "a", "r", "y">>},
           {}, {},
           {}, {}, {}),
   Matcher("content", 85, "content",
           {<<"c", "o", "n", "t", "e", "n", "t">>, <<"b", "o", "d", "y">>, <<"t", "e", "x", "t">>},
           {}, {},
           {}, {}, {}),
   Matcher("url", 90, "url",
           {<<"u", "r", "l">>, <<"l", "i", "n", "k">>, <<"h", "r", "e", "f">>},
           {}, {},
           {}, {}, {}),
   Matcher("website", 90, "websiteUrl",
           {<<"w", "e", "b", "s", "i", "t", "e">>, <<"s", "i", "t", "e">>, <<"h", "o", "m", "e", "p", "a", "g", "e">>},
           {}, {},
           {}, {}, {}),
   Matcher("containsEmail", 70, "email",
           {},
           {<<"e", "m", "a", "i", "l">>}, {},
           {}, {}, {}),
   Matcher("containsPhone", 70, "phone",
           {},
           {<<"p", "h", "o", "n", "e">>, <<"m", "o", "b", "i", "l", "e">>, <<"t", "e", "l">>}, {},
           {}, {}, {}),
   Matcher("containsName", 60, "fullName",
           {},
           {<<"n", "a", "m", "e">>}, {<<"f", "i", "l", "e">>, <<"u", "s", "e", "r">>},
           {}, {}, {}),
   Matcher("containsUrl", 70, "url",
           {},
           {<<"u", "r", "l">>, <<"l", "i", "n", "k">>}, {},
           {}, {}, {}),
   Matcher("containsImage", 70, "imageUrl",
           {},
           {<<"i", "m", "a", "g", "e">>, <<"i", "m", "g">>, <<"p", "h", "o", "t", "o">>, <<"p", "i", "c", "t", "u", "r", "e">>}, {},
           {}, {}, {}),
   Matcher("containsPrice", 70, "price",
           {},
           {<<"p", "r", "i", "c", "e">>, <<"c", "o", "s", "t">>, <<"f", "e", "e">>}, {},
           {}, {}, {}),
   Matcher("containsDate", 65, "datetime",
           {},
           {<<"d", "a", "t", "e">>, <<"t", "i", "m", "e">>}, {},
           {}, {}, {}),
   Matcher("containsAddress", 65, "address",
           {},
           {<<"a", "d", "d", "r", "e", "s", "s">>, <<"l", "o", "c", "a", "t", "i", "o", "n">>}, {},
           {}, {}, {}),
   Matcher("containsCity", 70, "city",
           {},
           {<<"c", "i", "t", "y">>}, {},
           {}, {}, {}),
   Matcher("containsCountry", 70, "country",
           {},
           {<<"c", "o", "u", "n", "t", "r", "y">>}, {},
           {}, {}, {}),
   Matcher("containsDescription", 65, "description",
           {},
           {<<"d", "e", "s", "c", "r", "i", "p", "t", "i", "o", "n">>, <<"d", "e", "s", "c">>}, {},
           {}, {}, {}),
   Matcher("containsTitle", 65, "title",
           {},
           {<<"t", "i", "t", "l", "e">>, <<"h", "e", "a", "d", "i", "n", "g">>}, {},
           {}, {}, {}),
   Matcher("containsCount", 65, "count",
           {},
           {<<"c", "o", "u", "n", "t">>, <<"t", "o", "t", "a", "l">>, <<"n", "u", "m">>}, {},
           {}, {}, {}),
   Matcher("suffixId", 60, "id",
           {},
           {}, {},
           {<<"i", "d">>}, {}, {<<"i", "d">>}),
   Matcher("suffixAt", 60, "datetime",
           {},
           {}, {},
           {<<"a", "t">>, <<"_", "a", "t">>}, {}, {}),
   Matcher("suffixDate", 60, "date",
           {},
           {}, {},
           {<<"d", "a", "t", "e">>}, {}, {}),
   Matcher("suffixTime", 60, "time",
           {},
           {}, {},
           {<<"t", "i", "m", "e">>}, {}, {}),
   Matcher("suffixUrl", 60, "url",
           {},
           {}, {},
           {<<"u", "r", "l">>}, {}, {}),
   Matcher("suffixCount", 60, "count",
           {},
           {}, {},
           {<<"c", "o", "u", "n", "t">>}, {}, {}),
   Matcher("prefixIs", 55, "isActive",
           {},
           {}, {},
           {}, {<<"i", "s">>, <<"i", "s", "_">>}, {}),
   Matcher("prefixHas", 55, "isActive",
           {},
           {}, {},
           {}, {<<"h", "a", "s">>, <<"h", "a", "s", "_">>}, {}),
   Matcher("prefixCan", 55, "isActive",
           {},
           {}, {},
           {}, {<<"c", "a", "n">>, <<"c", "a", "n", "_">>}, {}),
   Matcher("prefixTotal", 55, "total",
           {},
           {}, {},
           {}, {<<"t", "o", "t", "a", "l">>, <<"t", "o", "t", "a", "l", "_">>}, {}),
   Matcher("prefixNum", 55, "count",
           {},
           {}, {},
           {}, {<<"n", "u", "m">>, <<"n", "u", "m", "_">>}, {}),
   Matcher("latitude", 90, "latitude",
           {<<"l", "a", "t">>, <<"l", "a", "t", "i", "t", "u", "d", "e">>},
           {}, {},
           {}, {}, {}),
   Matcher("longitude", 90, "longitude",
           {<<"l", "n", "g">>, <<"l", "o", "n">>, <<"l", "o", "n", "g", "i", "t", "u", "d", "e">>},
           {}, {},
           {}, {}, {}),
   Matcher("ip", 90, "ip",
           {<<"i", "p">>, <<"i", "p", "a", "d", "d", "r", "e", "s", "s">>, <<"i", "p", "_", "a", "d", "d", "r", "e", "s", "s">>},
           {}, {},
           {}, {}, {}),
   Matcher("token", 90, "token",
           {<<"t", "o", "k", "e", "n">>, <<"a", "c", "c", "e", "s", "s", "t", "o", "k", "e", "n">>, <<"r", "e", "f", "r", "e", "s", "h", "t", "o", "k", "e", "n">>},
           {}, {},
           {}, {}, {}),
   Matcher("version", 90, "version",
           {<<"v", "e", "r", "s", "i", "o", "n">>, <<"v", "e", "r">>},
           {}, {},
           {}, {}, {})
  >>

\* A mutant of sortedPlace: of the matchers of one priority the later one
\* comes first.
sortedPlaceTiesReversed(list, n) ==
  1 + Cardinality({m \in 1..Len(list) :
                     \/ list[m].priority > list[n].priority
                     \/ list[m].priority = list[n].priority /\ m > n})

\* The place list[n] has after .sort((a, b) => b.priority - a.priority):
\* behind the matchers of higher priority and, Array.prototype.sort being
\* stable, behind those of its own priority that precede it in the list.
sortedPlace(list, n) ==
  1 + Cardinality({m \in 1..Len(list) :
                     \/ list[m].priority > list[n].priority
                     \/ list[m].priority = list[n].priority /\ m < n})

sortByPriority(list) ==
  [p \in 1..Len(list) |->
     list[CHOOSE n \in 1..Len(list) : sortedPlace(list, n) = p]]

builtInPatterns == sortByPriority(builtInPatternsDeclared)

NoPattern == [name |-> "null", priority |-> 0, generator |-> "none"]

\* for (const pattern of patterns) if (pattern.match(key, path)) return pattern
\* and return null after the loop.
firstMatch(patterns, key) ==
  IF \A i \in 1..Len(patterns) : ~match(patterns[i], key) THEN NoPattern
  ELSE patterns[CHOOSE i \in 1..Len(patterns) :
                  /\ match(patterns[i], key)
                  /\ \A j \in 1..(i - 1) : ~match(patterns[j], key)]

\* A mutant of findPattern: the list is scanned as it was declared.
findPatternDeclared(key) == firstMatch(builtInPatternsDeclared, key)

\* findPattern(key, path); no matcher reads the path.
findPattern(key) == firstMatch(builtInPatterns, key)

sUsername == <<"u", "s", "e", "r", "n", "a", "m", "e">>
sFilename == <<"f", "i", "l", "e", "n", "a", "m", "e">>
sName == <<"n", "a", "m", "e">>

\* LocalProvider.generateFallback: the generator the value comes from, by
\* the type of the field's value and else by the key.
generateFallback(field) ==
  LET key == toLowerCase(field.key)
  IN CASE field.type = "string" -> "title"
       [] field.type = "number" -> "randomInt"
       [] field.type = "boolean" -> "random"
       [] field.type = "array" -> "emptyArray"
       [] field.type = "object" -> "emptyObject"
       [] OTHER ->
            IF includes(key, <<"i", "d">>) THEN "generateUUID"
            ELSE IF includes(key, sName) THEN "fullName"
            ELSE IF includes(key, <<"e", "m", "a", "i", "l">>) THEN "email"
            ELSE IF \/ includes(key, <<"d", "a", "t", "e">>)
                    \/ includes(key, <<"t", "i", "m", "e">>) THEN "datetime"
            ELSE IF \/ includes(key, <<"u", "r", "l">>)
                    \/ includes(key, <<"l", "i", "n", "k">>) THEN "url"
            ELSE IF includes(key, <<"p", "h", "o", "n", "e">>) THEN "phone"
            ELSE IF \/ includes(key, <<"p", "r", "i", "c", "e">>)
                    \/ includes(key, <<"a", "m", "o", "u", "n", "t">>) THEN "price"
            ELSE IF \/ includes(key, <<"c", "o", "u", "n", "t">>)
                    \/ includes(key, <<"t", "o", "t", "a", "l">>) THEN "count"
            ELSE IF \/ startsWith(key, <<"i", "s">>)
                    \/ startsWith(key, <<"h", "a", "s">>) THEN "random"
            ELSE "title"

\* A mutant of localValueSource: the rules are not consulted.
localValueSourceFallback(field) == generateFallback(field)

\* LocalProvider.generateForFields for a field without override: the
\* generator of the matching pattern, else the fallback.
localValueSource(field) ==
  IF findPattern(field.key) # NoPattern THEN findPattern(field.key).generator
  ELSE generateFallback(field)

\* The keys looked up, and the types a missing field's value can have.
RegistryKeys ==
  {<<"o", "r", "d", "e", "r", "D", "a", "t", "e">>,
   <<"u", "s", "e", "r", "n", "a", "m", "e">>,
   <<"U", "s", "e", "r", "N", "a", "m", "e">>,
   <<"U", "S", "E", "R", "N", "A", "M", "E">>,
   <<"f", "i", "l", "e", "n", "a", "m", "e">>,
   <<"F", "i", "l", "e", "N", "a", "m", "e">>,
   <<"n", "a", "m", "e">>,
   <<"l", "a", "s", "t", "N", "a", "m", "e">>,
   <<"e", "m", "a", "i", "l", "U", "r", "l">>,
   <<"l", "a", "t">>,
   <<"n", "a", "m", "e", "I", "d">>,
   <<"i", "d">>,
   <<"i", "s", "A", "c", "t", "i", "v", "e">>,
   <<"x", "y", "z">>,
   <<"h", "o", "t", "e", "l", "P", "r", "i", "c", "e">>,
   <<"p", "e", "t", "N", "a", "m", "e">>,
   <<"l", "o", "g", "i", "n">>}

MissingTypes == {"null", "undefined", "string", "array"}

\* A caller holds the key of a missing field.
InitRegistry ==
  /\ heap = <<>>
  /\ cfg \in Configs
  /\ overrides = OvNone
  /\ overrideOps = 0
  /\ cache = NoCache
  /\ now = 0
  /\ ticks = 0
  /\ calls = [i \in Calls |-> IdleCall]
  /\ addr = IdleAddr
  /\ cacheCall = IdleCacheCall
  /\ net = IdleNet
  /\ setup = IdleSetup
  /\ rt = IdleRetry
  /\ \E key \in RegistryKeys, type \in MissingTypes :
       reg = [IdleReg EXCEPT !.pc = "ready", !.key = key, !.type = type]

\* findPattern(key, key)
FindPattern ==
  /\ reg.pc = "ready"
  /\ reg' = [reg EXCEPT !.pc = "found", !.found = findPattern(reg.key).name]
  /\ UNCHANGED <<heap, cfg, overrides, overrideOps, cache, now, ticks, calls,
                 addr, cacheCall, net, setup, rt>>

\* LocalProvider.generateForFields([field])
LocalFill ==
  /\ reg.pc = "found"
  /\ reg' = [reg EXCEPT !.pc = "filled",
                        !.source = localValueSource([key |-> reg.key,
                                                     type |-> reg.type])]
  /\ UNCHANGED <<heap, cfg, overrides, overrideOps, cache, now, ticks, calls,
                 addr, cacheCall, net, setup, rt>>

NextRegistry == FindPattern \/ LocalFill

SpecRegistry == InitRegistry /\ [][NextRegistry]_vars

\* ------------------------------------------------------------------------
\* cache: direct use of get, set, delete and clear
\* ------------------------------------------------------------------------

\* Two keys, the values stored, the ttl a set is given (none, or seconds),
\* and the advances of the clock: up to and just past the ttl of one
\* second and the default ttl.
CacheKeys == {generateKey(<<[path |-> sA, key |-> sA]>>),
              generateKey(<<[path |-> sB, key |-> sB]>>)}
CacheValues == {StrV(sX), StrV(sA)}
TtlChoices == {Undef, NumV(1), NumV(-1)}
CacheTickSteps == {1000, 1001, DefaultTtl * 1000, DefaultTtl * 1000 + 1}

\* What localStorage holds when the cache is built with persist: nothing,
\* or an entry two seconds old whose ttl is one second or the default.
StoredCaches ==
  {NoCache} \cup
  {[k \in {key} |-> [value |-> StrV(sX), timestamp |-> -2000, ttl |-> ttl]] :
     key \in CacheKeys, ttl \in {1, DefaultTtl}}

\* The entry stored under key, for the record of a call.
EntryAt(c, key) ==
  IF key \in DOMAIN c
  THEN [value |-> c[key].value, timestamp |-> c[key].timestamp,
        ttl |-> c[key].ttl, stored |-> TRUE]
  ELSE NoEntry

\* new CacheManager(config)
InitCache ==
  /\ heap = <<>>
  /\ cfg \in Configs
  /\ overrides = OvNone
  /\ overrideOps = 0
  /\ now = 0
  /\ ticks = 0
  /\ calls = [i \in Calls |-> IdleCall]
  /\ addr = IdleAddr
  /\ reg = IdleReg
  /\ cacheCall = IdleCacheCall
  /\ net = IdleNet
  /\ setup = IdleSetup
  /\ rt = IdleRetry
  /\ \E stored \in StoredCaches : cache = loadFromStorage(stored, now)

\* cache.get(key)
CacheGet(key) ==
  /\ cache' = cacheGet(cfg.cacheEnabled, cache, key, now).cache
  /\ cacheCall' = [IdleCacheCall EXCEPT
                     !.op = "get", !.key = key, !.prior = EntryAt(cache, key),
                     !.got = cacheGet(cfg.cacheEnabled, cache, key, now).value]
  /\ UNCHANGED <<heap, cfg, overrides, overrideOps, now, ticks, calls, addr,
                 reg, net, setup, rt>>

\* cache.set(key, value, ttl)
CacheSet(key, value, ttl) ==
  /\ cache' = cacheSet(cfg.cacheEnabled, cache, key, value, ttl, now)
  /\ cacheCall' = [IdleCacheCall EXCEPT
                     !.op = "set", !.key = key, !.value = value, !.ttl = ttl,
                     !.prior = EntryAt(cache, key)]
  /\ UNCHANGED <<heap, cfg, overrides, overrideOps, now, ticks, calls, addr,
                 reg, net, setup, rt>>

\* cache.delete(key)
CacheDelete(key) ==
  /\ cache' = cacheDelete(cache, key)
  /\ cacheCall' = [IdleCacheCall EXCEPT
                     !.op = "delete", !.key = key,
                     !.prior = EntryAt(cache, key)]
  /\ UNCHANGED <<heap, cfg, overrides, overrideOps, now, ticks, calls, addr,
                 reg, net, setup, rt>>

\* cache.clear()
CacheClear ==
  /\ cache' = NoCache
  /\ cacheCall' = [IdleCacheCall EXCEPT !.op = "clear"]
  /\ UNCHANGED <<heap, cfg, overrides, overrideOps, now, ticks, calls, addr,
                 reg, net, setup, rt>>

\* Time passes between two calls.
CacheTick(step) ==
  /\ ticks < MaxTicks
  /\ now' = now + step
  /\ ticks' = ticks + 1
  /\ cacheCall' = [IdleCacheCall EXCEPT !.op = "tick"]
  /\ UNCHANGED <<heap, cfg, overrides, overrideOps, cache, calls, addr, reg, net, setup, rt>>

NextCache ==
  \/ \E key \in CacheKeys : CacheGet(key)
  \/ \E key \in CacheKeys, value \in CacheValues, ttl \in TtlChoices :
       CacheSet(key, value, ttl)
  \/ \E key \in CacheKeys : CacheDelete(key)
  \/ CacheClear
  \/ \E step \in CacheTickSteps : CacheTick(step)

SpecCache == InitCache /\ [][NextCache]_vars

\* ------------------------------------------------------------------------
\* fills in flight together
\* ------------------------------------------------------------------------

\* The records filled, and the answers of the remote service: those of a
\* field request and a mapping whose values are objects.
ConcurrentRecords == {RecFlat, RecNested}
ConcurrentResponses(fields) ==
  FieldResponses(fields)
    \cup {RawJson(MappingOf(fields, 1, ObjL(<< <<sB, StrV(sX)>> >>), <<>>))}

\* Fills by callers that do not wait for one another: a fill may start
\* while another is suspended on the provider, and the provider's promises
\* settle in any order.
NextConcurrent ==
  \/ \E i \in Calls, lit \in ConcurrentRecords : FillStart(i, lit, NoOptions)
  \/ \E i \in Calls : \E raw \in ConcurrentResponses(calls[i].fields) :
       AIRespond(i, raw)
  \/ \E i \in Calls : FillMerge(i)

SpecConcurrent == Init /\ [][NextConcurrent]_vars

\* ------------------------------------------------------------------------
\* providers/local: a fill served by LocalProvider.generateForFields
\* ------------------------------------------------------------------------

\* The override branch of LocalProvider.generateForFields: a function is
\* called; of a configuration object the generator, else a sample of the
\* enum, else the value is taken; anything else is the value itself.
localOverride(override, rnd) ==
  CASE override.k = "fn" -> override.ret
    [] override.k = "lit" -> override.v
    [] OTHER ->
         IF override.hasGenerator THEN override.ret
         ELSE IF override.hasEnum THEN SampleAt(override.enum, rnd)
         ELSE IF override.hasValue THEN override.value
         ELSE [t |-> "config", o |-> override]

\* A value of the generator named: [] and {} for the fallbacks of those
\* types, and for every other generator a non-empty sample that carries
\* the generator's name.
GeneratedValue(source) ==
  CASE source = "emptyArray" -> ArrL(<<>>)
    [] source = "emptyObject" -> ObjL(<<>>)
    [] OTHER -> StrV(<<source>>)

\* The value data[field.path] is given in one turn of the loop.
localEntry(field, ovs, rnd) ==
  IF HasOverride(ovs, field.key) /\ OverrideOf(ovs, field.key) # LitO(Undef)
  THEN localOverride(OverrideOf(ovs, field.key), rnd)
  ELSE GeneratedValue(localValueSource(field))

RECURSIVE localData(_, _, _, _, _)
\* for (const field of fields) data[field.path] = ...
localData(fields, ovs, rnd, i, data) ==
  IF i > Len(fields) THEN ObjL(data.props)
  ELSE localData(fields, ovs, rnd, i + 1,
                 PutProp(data, fields[i].path,
                         localEntry(fields[i], ovs, rnd)))

sTags == <<"t", "a", "g", "s">>
sId == <<"i", "d">>
sFirstName == <<"f", "i", "r", "s", "t", "N", "a", "m", "e">>
sEmail == <<"e", "m", "a", "i", "l">>
sProfile == <<"p", "r", "o", "f", "i", "l", "e">>
sCity == <<"c", "i", "t", "y">>
sAge == <<"a", "g", "e">>

\* The records filled: the empty array, the profile and a profile with
\* parts that are not missing, beside the records of the other fills.
RecTags == ObjL(<< <<sTags, ArrL(<<>>)>> >>)
RecProfile ==
  ObjL(<< <<sId, Null>>, <<sFirstName, Null>>, <<sEmail, StrV(<<>>)>>,
          <<sProfile, ObjL(<< <<sCity, Null>> >>)>> >>)
RecProfileMore ==
  ObjL(<< <<sAge, NumV(0)>>, <<sTags, ArrL(<<StrV(sX)>>)>>,
          <<sProfile, ObjL(<< <<sCity, Undef>>, <<sA, BoolV(FALSE)>> >>)>>,
          <<sFirstName, StrV(<<>>)>> >>)
LocalRecords ==
  {RecTags, RecProfile, RecProfileMore, RecComplete, RecFlat, RecNested,
   ObjL(<< <<sTags, ArrL(<<>>)>>, <<sFilename, Null>> >>)}

LocalOverrides == {OvNone, OvEnum, << <<sId, ValueO(NumV(7))>> >>}

\* The call after the clone and the extraction: returned when nothing is
\* missing, else suspended on generateForFields.
localEntered(lit, obj, cl, fields, ovs, rnd) ==
  [IdleCall EXCEPT
     !.kind = "local", !.lit = lit, !.obj = obj, !.cloned = cl.v,
     !.merged = ovs, !.rnd = rnd, !.fields = fields,
     !.pc = IF fields = <<>> THEN "done" ELSE "awaitLocal",
     !.result = IF fields = <<>> THEN cl.v ELSE Undef]

localCloned(lit, obj, cl, ovs, rnd) ==
  localEntered(lit, obj, cl, extractEmptyFields(cl.h, cl.v), ovs, rnd)

\* fill up to its await, with the local provider in the place of the
\* remote one: clone, extract; generateForFields is entered.
LocalStart(lit, ovs, rnd) ==
  /\ calls[1].pc = "idle"
  /\ heap' = deepClone(Load(heap, lit).h, Load(heap, lit).v).h
  /\ calls' = [calls EXCEPT ![1] =
       localCloned(lit, Load(heap, lit).v,
                   deepClone(Load(heap, lit).h, Load(heap, lit).v), ovs, rnd)]
  /\ UNCHANGED <<cfg, overrides, overrideOps, cache, now, ticks, addr, reg,
                 cacheCall, net, setup, rt>>

\* LocalProvider.generateForFields resolves with the mapping it built.
LocalRespond ==
  /\ calls[1].pc = "awaitLocal"
  /\ heap' = Load(heap, localData(calls[1].fields, calls[1].merged,
                                  calls[1].rnd, 1, EmptyObj)).h
  /\ calls' = [calls EXCEPT ![1] =
       [@ EXCEPT !.pc = "merge",
                 !.aiResult = Success(RefV(Len(heap) + 1))]]
  /\ UNCHANGED <<cfg, overrides, overrideOps, cache, now, ticks, addr, reg,
                 cacheCall, net, setup, rt>>

NextLocal ==
  \/ \E lit \in LocalRecords, ovs \in LocalOverrides, rnd \in Rnd :
       LocalStart(lit, ovs, rnd)
  \/ LocalRespond
  \/ FillMerge(1)

SpecLocal == Init /\ [][NextLocal]_vars

\* ------------------------------------------------------------------------
\* interceptors: the fetch wrappers and the axios interceptor
\* ------------------------------------------------------------------------

\* An optional list of the InterceptorConfig: absent, or the list given.
Absent == [given |-> FALSE, list |-> <<>>]
Given(list) == [given |-> TRUE, list |-> list]

\* patterns.some(p => url.includes(p)), for string patterns.
somePattern(patterns, url) ==
  \E n \in 1..Len(patterns) : includes(url, patterns[n])

\* method.toUpperCase(), a method being a word.
toUpperCase(method) ==
  CASE method = "get" -> "GET"
    [] method = "post" -> "POST"
    [] OTHER -> method

\* What the wrapper returns: the response it received or a new one, the
\* data the axios response holds, and whether the body was read and fill
\* was called.
Untouched ==
  [response |-> "received", data |-> "original", read |-> FALSE,
   fill |-> FALSE]
ReadOnly == [Untouched EXCEPT !.read = TRUE]
FillFailed == [Untouched EXCEPT !.read = TRUE, !.fill = TRUE]
Refilled ==
  [response |-> "new", data |-> "filled", read |-> TRUE, fill |-> TRUE]

\* The end of both fetch wrappers: the clone is read as JSON, an object is
\* filled and sent on in a new Response; a body that does not parse, a
\* value that is no object and a fill that rejects give the response
\* received.
fetchBody(rsp) ==
  IF rsp.body = "object"
  THEN IF rsp.fillResolves THEN Refilled ELSE FillFailed
  ELSE ReadOnly

\* interceptors/fetch.ts: smartFetch after the await of fetch.  The url is
\* the input or its url; the method is init.method, 'GET' without it.
fetchWrapper(config, req, rsp) ==
  IF ~config.enabled THEN Untouched
  ELSE IF /\ config.urlPatterns.given /\ Len(config.urlPatterns.list) > 0
          /\ ~somePattern(config.urlPatterns.list, req.url)
  THEN Untouched
  ELSE IF /\ config.excludePatterns.given
          /\ Len(config.excludePatterns.list) > 0
          /\ somePattern(config.excludePatterns.list, req.url)
  THEN Untouched
  ELSE IF /\ config.methods.given /\ Len(config.methods.list) > 0
          /\ \A n \in 1..Len(config.methods.list) :
               config.methods.list[n]
                 # toUpperCase(IF req.initMethod = "" THEN "GET"
                               ELSE req.initMethod)
  THEN Untouched
  ELSE IF ~rsp.json THEN Untouched
  ELSE fetchBody(rsp)

\* The url SmartMocker.createFetchWrapper tests: the input when it is a
\* string, else input.toString(), which for a Request is
\* '[object Request]'.
sObjectRequest == <<"[", "o", "b", "j", "e", "c", "t", " ", "R", "e", "q", "u", "e", "s", "t", "]">>
mockerUrl(req) == IF req.input = "string" THEN req.url ELSE sObjectRequest

\* SmartMocker.createFetchWrapper: smartFetch after the await of fetch.
mockerFetchWrapper(config, req, rsp) ==
  IF ~config.enabled THEN Untouched
  ELSE IF /\ config.urlPatterns.given
          /\ ~somePattern(config.urlPatterns.list, mockerUrl(req))
  THEN Untouched
  ELSE IF /\ config.excludePatterns.given
          /\ somePattern(config.excludePatterns.list, mockerUrl(req))
  THEN Untouched
  ELSE fetchBody(rsp)

\* interceptors/axios.ts: the response handler.  The url and the method
\* are those of res.config; res.data is the body, parsed by axios.
axiosInterceptor(config, req, rsp) ==
  IF ~config.enabled THEN Untouched
  ELSE IF /\ config.urlPatterns.given /\ Len(config.urlPatterns.list) > 0
          /\ ~somePattern(config.urlPatterns.list, req.url)
  THEN Untouched
  ELSE IF /\ config.excludePatterns.given
          /\ Len(config.excludePatterns.list) > 0
          /\ somePattern(config.excludePatterns.list, req.url)
  THEN Untouched
  ELSE IF /\ config.methods.given /\ Len(config.methods.list) > 0
          /\ \A n \in 1..Len(config.methods.list) :
               config.methods.list[n]
                 # toUpperCase(IF req.method = "" THEN "GET" ELSE req.method)
  THEN Untouched
  ELSE IF rsp.body = "object"
  THEN IF rsp.fillResolves
       THEN [response |-> "received", data |-> "filled", read |-> TRUE,
             fill |-> TRUE]
       ELSE FillFailed
  ELSE Untouched

\* The configurations, requests and responses of the calls.  A request is
\* made with a string or with a Request object; method is the method it
\* is sent with, initMethod the method of the init argument ('' without
\* one).
sApi == <<"a", "p", "i">>
sUsers == <<"/", "u">>
InterceptorConfigs ==
  [enabled : BOOLEAN,
   urlPatterns : {Absent, Given(<<>>), Given(<<sApi>>)},
   excludePatterns : {Absent, Given(<<sUsers>>)},
   methods : {Absent, Given(<<"GET">>)}]
AdapterRequests ==
  {[input |-> "string", url |-> u, method |-> m, initMethod |-> m] :
     u \in {<<"/", "a", "p", "i", "/", "u">>, <<"/", "a", "p", "i", "/", "x">>, <<"/", "x">>}, m \in {"", "get", "POST"}}
  \cup {[input |-> "request", url |-> u, method |-> "POST",
         initMethod |-> ""] : u \in {<<"/", "a", "p", "i", "/", "u">>, <<"/", "a", "p", "i", "/", "x">>}}
AdapterResponses ==
  [json : BOOLEAN, body : {"object", "primitive", "invalid"},
   fillResolves : BOOLEAN]

\* A request has been answered and the response reaches a wrapper.
InitAdapter ==
  /\ heap = <<>>
  /\ cfg \in Configs
  /\ overrides = OvNone
  /\ overrideOps = 0
  /\ cache = NoCache
  /\ now = 0
  /\ ticks = 0
  /\ calls = [i \in Calls |-> IdleCall]
  /\ addr = IdleAddr
  /\ reg = IdleReg
  /\ cacheCall = IdleCacheCall
  /\ setup = IdleSetup
  /\ rt = IdleRetry
  /\ \E config \in InterceptorConfigs, req \in AdapterRequests,
        rsp \in AdapterResponses :
       net = [pc |-> "answered", config |-> config, req |-> req,
              rsp |-> rsp, adapter |-> "", out |-> Untouched]

Deliver(adapter, out) ==
  /\ net.pc = "answered"
  /\ net' = [net EXCEPT !.pc = "returned", !.adapter = adapter, !.out = out]
  /\ UNCHANGED <<heap, cfg, overrides, overrideOps, cache, now, ticks, calls,
                 addr, reg, cacheCall, setup, rt>>

\* The wrapper of createFetchWrapper(mocker, config) returns.
FetchWrapper ==
  /\ net.pc = "answered"
  /\ Deliver("fetch", fetchWrapper(net.config, net.req, net.rsp))

\* The wrapper of mocker.createFetchWrapper(config) returns.
MockerFetchWrapper ==
  /\ net.pc = "answered"
  /\ Deliver("mocker", mockerFetchWrapper(net.config, net.req, net.rsp))

\* The handler of createAxiosInterceptor(axios, mocker, config) returns.
AxiosInterceptor ==
  /\ net.req.input = "string"
  /\ Deliver("axios", axiosInterceptor(net.config, net.req, net.rsp))

NextAdapter == FetchWrapper \/ MockerFetchWrapper \/ AxiosInterceptor

SpecAdapter == InitAdapter /\ [][NextAdapter]_vars

\* ------------------------------------------------------------------------
\* index: quickSetup, init, getInstance and the fill of the default instance
\* ------------------------------------------------------------------------

Constructed == [threw |-> FALSE, error |-> ""]
Thrown(error) == [threw |-> TRUE, error |-> error]

\* new SmartMocker(config): the provider must be 'gemini' and the key
\* truthy, else the constructor throws.
newSmartMocker(provider, apiKey) ==
  IF provider = "gemini" /\ Truthy(apiKey) THEN Constructed
  ELSE Thrown("AI provider configuration is required. Please provide a valid Gemini API key.")

\* quickSetup(apiKey) of src/index.ts, where the key is optional and the
\* provider 'local' without it, and of the module joined to core/mocker.ts,
\* which throws without a key; both go on with init(config).
quickSetup(entry, apiKey) ==
  IF entry = "index"
  THEN newSmartMocker(IF Truthy(apiKey) THEN "gemini" ELSE "local", apiKey)
  ELSE IF ~Truthy(apiKey)
  THEN Thrown("API key is required for AI-powered mock data generation")
  ELSE newSmartMocker("gemini", apiKey)

\* The keys quickSetup is called with: none, '' and a key.
ApiKeys == {Undef, StrV(<<>>), StrV(<<"k">>)}

\* The configuration quickSetup hands to init: the cache enabled, no
\* maxRetries.
QuickConfig == [cacheEnabled |-> TRUE, hasMaxRetries |-> FALSE, maxRetries |-> 0]

\* quickSetup(apiKey): the default instance is set when the constructor
\* returns, and left as it was when something throws.
QuickSetup(entry, apiKey) ==
  /\ setup.pc = "none"
  /\ setup' = [pc |-> "called", entry |-> entry, apiKey |-> apiKey,
               threw |-> quickSetup(entry, apiKey).threw,
               error |-> quickSetup(entry, apiKey).error,
               instance |-> ~quickSetup(entry, apiKey).threw]
  /\ cfg' = IF quickSetup(entry, apiKey).threw THEN cfg ELSE QuickConfig
  /\ UNCHANGED <<heap, overrides, overrideOps, cache, now, ticks, calls,
                 addr, reg, cacheCall, net, rt>>

\* fill(obj, options) of the module: getInstance() throws without a
\* default instance, and the promise rejects.
DefaultFillRejected ==
  /\ setup.pc = "called"
  /\ ~setup.instance
  /\ calls[1].pc = "idle"
  /\ calls' = [calls EXCEPT ![1] =
       [IdleCall EXCEPT !.kind = "fill", !.pc = "rejected",
                        !.error = "SmartMocker not initialized. Call init() first or use createSmartMocker()."]]
  /\ UNCHANGED <<heap, cfg, overrides, overrideOps, cache, now, ticks, addr,
                 reg, cacheCall, net, setup, rt>>

\* fill(obj, options) of the module, on the default instance.
DefaultFill(lit, opts) ==
  /\ setup.pc = "called"
  /\ setup.instance
  /\ FillStart(1, lit, opts)

NextSetup ==
  \/ \E entry \in {"index", "mocker"}, apiKey \in ApiKeys :
       QuickSetup(entry, apiKey)
  \/ DefaultFillRejected
  \/ \E lit \in Records, opts \in FillOptions : DefaultFill(lit, opts)
  \/ \E raw \in FieldResponses(calls[1].fields) : AIRespond(1, raw)
  \/ FillMerge(1)

SpecSetup == Init /\ [][NextSetup]_vars

\* ------------------------------------------------------------------------
\* utils: setNestedValue and getNestedValue on paths that are not well formed
\* ------------------------------------------------------------------------

sOpen == <<"a", "[">>
sBadIndex == <<"a", "[", "x", "]">>

\* Paths with a bracket that opens or closes nothing, with an index that
\* is no number or no name, and paths that are well formed; roots that
\* hold properties of those names, a null, a string and an object where a
\* path expects a container or an array.
MalformedPaths ==
  {<<"a", "[">>,
   <<"a", "[", ".", "b">>,
   <<"a", "]", "b">>,
   <<"a", "[", "x", "]", ".", "b">>,
   <<"[", "0", "]">>,
   <<"a", "[", "0">>,
   <<"a", ".", "b">>,
   <<"a", "[", "0", "]", ".", "b">>,
   <<"a", "[", "0", "]">>}
MalformedRoots ==
  {ObjL(<<>>),
   ObjL(<< <<sOpen, StrV(sX)>>, <<sA, Null>> >>),
   ObjL(<< <<sOpen, ObjL(<< <<sB, NumV(0)>> >>)>>,
           <<sBadIndex, ObjL(<< <<sB, StrV(sX)>> >>)>>,
           <<sA, ObjL(<< <<<<"0">>, ObjL(<< <<sB, StrV(sX)>> >>)>> >>)>> >>),
   ObjL(<< <<sA, ArrL(<<ObjL(<< <<sB, StrV(sX)>> >>)>>)>> >>),
   ObjL(<< <<sA, StrV(sX)>> >>)}

\* A caller holds a root and a path.
InitMalformed ==
  /\ cfg \in Configs
  /\ overrides = OvNone
  /\ overrideOps = 0
  /\ cache = NoCache
  /\ now = 0
  /\ ticks = 0
  /\ calls = [i \in Calls |-> IdleCall]
  /\ reg = IdleReg
  /\ cacheCall = IdleCacheCall
  /\ net = IdleNet
  /\ setup = IdleSetup
  /\ rt = IdleRetry
  /\ \E root \in MalformedRoots, path \in MalformedPaths :
       /\ heap = Load(<<>>, root).h
       /\ addr = [IdleAddr EXCEPT !.pc = "ready", !.lit = root,
                                  !.obj = Load(<<>>, root).v,
                                  !.path = path, !.value = NumV(1)]

\* getNestedValue(root, path) on the root as it was given
GetGiven ==
  /\ addr.pc = "ready"
  /\ addr' = [addr EXCEPT !.pc = "read",
                          !.got = getNestedValue(heap, addr.obj, addr.path)]
  /\ UNCHANGED <<heap, cfg, overrides, overrideOps, cache, now, ticks, calls,
                 reg, cacheCall, net, setup, rt>>

NextMalformed == GetGiven \/ SetNested \/ GetNested

SpecMalformed == InitMalformed /\ [][NextMalformed]_vars

\* ------------------------------------------------------------------------
\* SmartMocker.fill: the order of the entries of the provider's mapping
\* ------------------------------------------------------------------------

\* A record with a key that holds a dot, whose path runs through another
\* missing field, and records whose missing fields are written
\* independently of one another.
RecDotted == ObjL(<< <<sA, Null>>, <<sDotted, Null>> >>)
OrderRecords == {RecDotted, RecNested, RecFlat}

\* The orders a mapping can list n entries in.
Orders(n) ==
  {p \in [1..n -> 1..n] : \A j, k \in 1..n : p[j] = p[k] => j = k}

\* The remote service answers with one entry for every requested path, in
\* any order (the order of the keys of the JSON text), or not at all.
OrderResponses(fields) ==
  {RawTimeout}
    \cup {RawJson(ObjL([k \in 1..Len(fields) |->
                          <<fields[p[k]].path, StrV(fields[p[k]].path)>>])) :
            p \in Orders(Len(fields))}

\* Fills by one caller, answered with the entries in any order.
NextOrder ==
  \/ \E i \in Calls, lit \in OrderRecords :
       Sequential(i) /\ FillStart(i, lit, NoOptions)
  \/ \E i \in Calls : \E raw \in OrderResponses(calls[i].fields) : AIRespond(i, raw)
  \/ \E i \in Calls : FillMerge(i)

SpecOrder == Init /\ [][NextOrder]_vars

\* ------------------------------------------------------------------------
\* SmartMocker.fill: the filter options
\* ------------------------------------------------------------------------

\* Records with a null, an undefined and an empty string, with an empty
\* array, and with a null in a nested object.
RecMixed == ObjL(<< <<sA, Null>>, <<sB, Undef>>, <<sS, StrV(<<>>)>> >>)
RecEmptyArray == ObjL(<< <<sS, ArrL(<<>>)>>, <<sA, Null>> >>)
FilterRecords == {RecMixed, RecEmptyArray, RecNested}

\* Every combination of nullOnly, undefinedOnly and emptyStringsOnly.
FilterOptions ==
  {[NoOptions EXCEPT !.nullOnly = n, !.undefinedOnly = u,
                     !.emptyStringsOnly = e] : n, u, e \in BOOLEAN}

\* One fill with filter options.
NextFilter ==
  \/ \E lit \in FilterRecords, opts \in FilterOptions : FillStart(1, lit, opts)
  \/ \E raw \in FieldResponses(calls[1].fields) : AIRespond(1, raw)
  \/ FillMerge(1)

SpecFilter == Init /\ [][NextFilter]_vars

\* ------------------------------------------------------------------------
\* SmartMocker.generateWithAI: the cache around a generation that fails
\* ------------------------------------------------------------------------

\* Fills by one caller on a mocker whose clock moves and whose cache no one
\* clears: what the cache holds is what the fills have left in it.
NextFailure ==
  \/ \E i \in Calls, lit \in ConcurrentRecords :
       Sequential(i) /\ FillStart(i, lit, NoOptions)
  \/ \E i \in Calls : \E raw \in FieldResponses(calls[i].fields) : AIRespond(i, raw)
  \/ \E i \in Calls : FillMerge(i)
  \/ \E step \in TickSteps : Tick(step)

SpecFailure == Init /\ [][NextFailure]_vars

\* ------------------------------------------------------------------------
\* utils: retry called on its own
\* ------------------------------------------------------------------------

\* The largest maxRetries a caller passes.
MaxRetryChoice == 3

\* What an attempt of fn settles with.
RetryOutcomes ==
  {Resolved(StrV(sX)), Resolved(StrV(<<"z">>)),
   Rejected("first"), Rejected("second")}

\* retry(fn, maxRetries) up to its first await: the loop is entered and
\* fn invoked, or, with no attempt to make, lastError (undefined) is
\* thrown.
RetryCall(n) ==
  /\ rt.pc = "idle"
  /\ rt' = IF 0 < n
           THEN [IdleRetry EXCEPT !.pc = "calling", !.maxRetries = n,
                                  !.invoked = 1]
           ELSE [IdleRetry EXCEPT !.pc = "thrown", !.maxRetries = n]
  /\ UNCHANGED <<heap, cfg, overrides, overrideOps, cache, now, ticks, calls,
                 addr, reg, cacheCall, net, setup>>

\* The promise of fn settles: retry returns its value, or keeps the error
\* and starts the timer of the delay, or throws the error.
FnSettles(settled) ==
  /\ rt.pc = "calling"
  /\ LET r == retryOnSettle(rt.attempt, rt.maxRetries, settled)
         seen == [rt EXCEPT !.settled = Append(@, settled)]
     IN rt' = IF r.st = "return"
              THEN [seen EXCEPT !.pc = "returned", !.value = r.value]
              ELSE IF r.st = "sleep"
              THEN [seen EXCEPT !.pc = "sleeping", !.lastError = StrV(<<r.error>>),
                                !.slept = Append(@, r.delay)]
              ELSE [seen EXCEPT !.pc = "thrown", !.lastError = StrV(<<r.error>>),
                                !.error = StrV(<<r.error>>)]
  /\ UNCHANGED <<heap, cfg, overrides, overrideOps, cache, now, ticks, calls,
                 addr, reg, cacheCall, net, setup>>

\* The timer of the delay fires: attempt++, and fn is invoked again while
\* attempt < maxRetries; past the loop lastError is thrown.
TimerFires ==
  /\ rt.pc = "sleeping"
  /\ rt' = IF rt.attempt + 1 < rt.maxRetries
           THEN [rt EXCEPT !.pc = "calling", !.attempt = @ + 1,
                           !.invoked = @ + 1]
           ELSE [rt EXCEPT !.pc = "thrown", !.attempt = @ + 1,
                           !.error = rt.lastError]
  /\ UNCHANGED <<heap, cfg, overrides, overrideOps, cache, now, ticks, calls,
                 addr, reg, cacheCall, net, setup>>

NextRetry ==
  \/ \E n \in 0..MaxRetryChoice : RetryCall(n)
  \/ \E settled \in RetryOutcomes : FnSettles(settled)
  \/ TimerFires

SpecRetry == Init /\ [][NextRetry]_vars

\* Every call of fn settles and every timer fires.
SpecRetryFair ==
  /\ SpecRetry
  /\ WF_vars(\E settled \in RetryOutcomes : FnSettles(settled))
  /\ WF_vars(TimerFires)

\* ------------------------------------------------------------------------
\* Properties
\* ------------------------------------------------------------------------

RECURSIVE LitMissing(_)
\* Some field of a record, at any depth, is null, undefined, a blank
\* string or an empty container.
LitMissing(lit) ==
  \E i \in 1..Len(lit.props) :
    LET v == lit.props[i][2]
    IN \/ v.t \in {"null", "undefined"}
       \/ v.t = "string" /\ IsBlank(v.s)
       \/ v.t = "cell" /\ (v.props = <<>> \/ LitMissing(v))

\* C1: a fill of a record in which no field is null, undefined, a blank
\* string or an empty container has returned as soon as it has started;
\* what it returned is deep-equal to the input, the cache was not looked
\* up and no request was sent to the generation collaborator.
C1_CompleteRecordReturnedAtOnce ==
  \A i \in Calls :
    calls[i].kind = "fill" /\ ~LitMissing(calls[i].lit) =>
      /\ calls[i].pc = "done"
      /\ Read(heap, calls[i].result) = calls[i].lit
      /\ ~calls[i].consulted
      /\ calls[i].sent = <<>>

\* A second fill, of the complete record, has returned while the cache
\* holds the result of the first.
C1_Witness ==
  /\ calls[2].kind = "fill"
  /\ calls[2].lit = RecComplete
  /\ calls[2].pc = "done"
  /\ cache # NoCache

\* C2: whatever a fill call has done so far (started, been answered from
\* the cache or by the collaborator, merged, returned or rejected), the
\* record passed in is deep-equal to what was passed in, and the copy the
\* call writes to shares no object or array with it.
C2_InputNeverMutated ==
  \A i \in Calls :
    calls[i].kind = "fill" =>
      /\ Read(heap, calls[i].obj) = calls[i].lit
      /\ Reach(heap, calls[i].obj) \cap Reach(heap, calls[i].cloned) = {}

\* A fill answered from the cache has returned a record that differs from
\* its input in a nested object.
C2_Witness ==
  /\ calls[2].kind = "fill"
  /\ calls[2].pc = "done"
  /\ calls[2].consulted
  /\ calls[2].sent = <<>>
  /\ calls[2].lit = RecNested
  /\ Read(heap, calls[2].result) # RecNested

\* C3: a fill that has returned has given a value to every missing field
\* it extracted and kept: none of them is still null, undefined, blank or
\* an empty container in the returned record.
C3_ReturnsFilledOrRejects ==
  \A i \in Calls :
    calls[i].kind = "fill" /\ calls[i].pc = "done" =>
      \A j \in 1..Len(calls[i].fields) :
        ~isEmpty(heap, getNestedValue(heap, calls[i].result,
                                      calls[i].fields[j].path))

\* C4: a fill is rejected for a failed generation only after the request
\* has been sent as many times as ai.maxRetries allows.
C4_RejectedOnlyAfterAllAttempts ==
  \A i \in Calls :
    /\ calls[i].kind = "fill"
    /\ calls[i].pc = "rejected"
    /\ calls[i].error = "Failed to generate data with AI provider"
    => Len(calls[i].sent) = maxRetries

\* C5: no request sent to the generation collaborator by a fill lists a
\* field for which the call's effective overrides hold an entry, under the
\* field's path or under its key.
C5_OverriddenFieldsNeverSent ==
  \A i \in Calls :
    calls[i].kind = "fill" =>
      \A n \in 1..Len(calls[i].sent) :
        \A j \in 1..Len(calls[i].sent[n].paths) :
          /\ ~HasOverride(calls[i].merged, calls[i].sent[n].paths[j])
          /\ ~HasOverride(calls[i].merged, calls[i].sent[n].keys[j])

\* The candidates of the enum override that applies to a field, under its
\* path or else under its key; empty when there is none.
EnumFor(ovs, field) ==
  LET o == IF HasOverride(ovs, field.path) THEN OverrideOf(ovs, field.path)
           ELSE IF HasOverride(ovs, field.key) THEN OverrideOf(ovs, field.key)
           ELSE LitO(Undef)
  IN IF o.k = "cfg" /\ o.hasEnum /\ ~o.hasGenerator /\ ~o.hasValue
     THEN o.enum ELSE <<>>

\* C6: in the record a fill has returned, a field that was missing and has
\* a non-empty enum override holds one of the candidates of the enum.
C6_EnumOverrideYieldsMember ==
  \A i \in Calls :
    calls[i].kind = "fill" /\ calls[i].pc = "done" =>
      \A j \in 1..Len(calls[i].fields) :
        LET enum == EnumFor(calls[i].merged, calls[i].fields[j])
        IN enum # <<>> =>
             \E k \in 1..Len(enum) :
               getNestedValue(heap, calls[i].result, calls[i].fields[j].path)
                 = enum[k]

\* The records a call has returned: the result of fill and generate, the
\* items of the result of generateMany.
Returned(c) ==
  IF c.pc # "done" \/ ~IsRef(c.result) THEN {}
  ELSE IF c.kind = "generateMany"
  THEN {heap[c.result.r].props[n][2] : n \in 1..Len(heap[c.result.r].props)}
  ELSE {c.result}

\* C7: when the effective overrides of a call hold both the path-qualified
\* key "u.a" and the bare key "a", every returned record that has the
\* field u.a holds there the value resolved from the entry "u.a"; this for
\* fill, generate and generateMany.
C7_PathQualifiedKeyWins ==
  \A i \in Calls :
    HasOverride(calls[i].merged, sUA) /\ HasOverride(calls[i].merged, sA) =>
      \A rec \in Returned(calls[i]) :
        /\ IsRef(rec)
        /\ IsRef(GetProp(heap, rec, sU))
        /\ HasProp(heap[GetProp(heap, rec, sU).r], sA)
        => getNestedValue(heap, rec, sUA) =
             resolveOverride(OverrideOf(calls[i].merged, sUA), calls[i].rnd)

\* The keys of an override set.
KeysOf(ovs) == {ovs[j][1] : j \in 1..Len(ovs)}

\* C8: the step in which a call (fill, generate or generateMany) starts
\* leaves the mocker-wide overrides as they are, and makes the call's
\* effective overrides hold, for every key of the per-call overrides, the
\* per-call entry, for every other key of the mocker-wide overrides, the
\* mocker-wide entry, and nothing else; a request a fill sends carries
\* these effective overrides.
C8_PerCallShadowsMockerWide ==
  [][\A i \in Calls :
       calls[i].pc = "idle" /\ calls'[i].pc # "idle" =>
         LET perCall == calls'[i].opts.overrides
             merged == calls'[i].merged
         IN /\ overrides' = overrides
            /\ KeysOf(merged) = KeysOf(overrides) \cup KeysOf(perCall)
            /\ \A k \in KeysOf(perCall) :
                 OverrideOf(merged, k) = OverrideOf(perCall, k)
            /\ \A k \in KeysOf(overrides) \ KeysOf(perCall) :
                 OverrideOf(merged, k) = OverrideOf(overrides, k)
            /\ \A n \in 1..Len(calls'[i].sent) :
                 calls'[i].kind = "fill" =>
                   calls'[i].sent[n].overrides = merged]_vars

\* A call has started with a per-call entry for "a" while the mocker held
\* its own entry for "a": the key keeps the mocker's place in the merged
\* set and holds the per-call entry.
C8_Witness ==
  /\ calls[1].pc # "idle"
  /\ calls[1].opts.overrides = OvBoth
  /\ calls[1].merged = << <<sA, ValueO(StrV(sX))>>,
                          <<sUA, ValueO(StrV(<<"y">>))>> >>

\* An enum override without candidates.
IsEmptyEnum(o) ==
  o.k = "cfg" /\ o.hasEnum /\ ~o.hasGenerator /\ ~o.hasValue /\ o.enum = <<>>

\* C9: no call returns a record to which an enum override without
\* candidates was applied: resolving such an override is an error that
\* rejects the call.
C9_EmptyEnumRejects ==
  \A i \in Calls :
    \A rec \in Returned(calls[i]) :
      \A j \in 1..Len(calls[i].merged) :
        /\ calls[i].kind \in {"generate", "generateMany"}
        /\ IsEmptyEnum(calls[i].merged[j][2])
        /\ IsRef(rec)
        => ~(\/ HasProp(heap[rec.r], calls[i].merged[j][1])
             \/ hasNestedKey(heap, rec, calls[i].merged[j][1]))

RECURSIVE PathFits(_, _, _, _, _)
\* No segment of the path before the last addresses an existing (truthy)
\* value of a conflicting type: a plain segment finds nothing or an object,
\* an indexed segment finds nothing or an array whose element is nothing
\* or an object.  With lastToo, the last segment, when indexed, finds
\* nothing or an array as well.
PathFits(h, current, parts, i, lastToo) ==
  LET m == arrayMatch(parts[i])
      found == GetProp(h, current, IF m.matched THEN m.arrayKey ELSE parts[i])
      element == GetProp(h, found, ToDecimal(m.index))
  IN IF i = Len(parts)
     THEN ~lastToo \/ ~m.matched \/ ~Truthy(found) \/ IsArray(h, found)
     ELSE IF ~Truthy(found) THEN TRUE
     ELSE IF m.matched
     THEN /\ IsArray(h, found)
          /\ \/ ~Truthy(element)
             \/ /\ IsRef(element) /\ ~IsArray(h, element)
                /\ PathFits(h, element, parts, i + 1, lastToo)
     ELSE /\ IsRef(found) /\ ~IsArray(h, found)
          /\ PathFits(h, found, parts, i + 1, lastToo)

\* The root of the addressor's caller as it was before set.
AddrFits(lastToo) ==
  PathFits(Load(<<>>, addr.lit).h, Load(<<>>, addr.lit).v,
           split(addr.path), 1, lastToo)

\* C10, as stated: when no segment before the last addresses an existing
\* value of a conflicting type, the get that follows set returns the value
\* that was set.
C10_RoundTripAsStated ==
  addr.pc = "got" /\ AddrFits(FALSE) => addr.got = addr.value

\* C10, amended: when no segment before the last addresses an existing
\* value of a conflicting type, and the last segment, if it ends in [N],
\* does not name an existing value that is not an array, set does not
\* raise and the get that follows returns the value that was set.
C10_RoundTrip ==
  addr.pc = "got" /\ AddrFits(TRUE) =>
    ~addr.threw /\ addr.got = addr.value

\* The array a and its element 0 were missing from the root and have been
\* created by set; get has returned the value.
C10_Witness ==
  /\ addr.pc = "got"
  /\ addr.lit = ObjL(<<>>)
  /\ addr.path = sA0B
  /\ addr.value = StrV(sX)
  /\ addr.got = StrV(sX)
  /\ IsArray(heap, GetProp(heap, addr.obj, sA))

RECURSIVE OneChange(_, _, _, _)
\* new is old with the value at one location, which was from, replaced by
\* to, and nothing else changed.
OneChange(old, new, from, to) ==
  IF old = from /\ new = to THEN TRUE
  ELSE /\ old.t = "cell" /\ new.t = "cell"
       /\ old.arr = new.arr
       /\ Len(old.props) = Len(new.props)
       /\ \A i \in 1..Len(old.props) : old.props[i][1] = new.props[i][1]
       /\ \E i \in 1..Len(old.props) :
            /\ OneChange(old.props[i][2], new.props[i][2], from, to)
            /\ \A k \in 1..Len(old.props) :
                 k # i => old.props[k][2] = new.props[k][2]

\* C11: the descriptors of one walk have distinct paths; get on the path
\* of a descriptor returns the descriptor's value; set on that path does
\* not raise, replaces the value at the descriptor's location and changes
\* nothing else of the record.
C11_PathAddressesItsLocation ==
  /\ addr.pc \in {"extracted", "read", "written"} =>
       \A j, k \in 1..Len(addr.fields) :
         j # k => addr.fields[j].path # addr.fields[k].path
  /\ addr.pc = "read" => addr.got = addr.fields[addr.pick].value
  /\ addr.pc = "written" /\ addr.fields # <<>> =>
       /\ ~addr.threw
       /\ OneChange(addr.lit, Read(heap, addr.obj),
                    Read(heap, addr.fields[addr.pick].value), addr.value)

RECURSIVE ExpectedFrom(_, _, _, _)
\* The (path, key, value) triples the rules of extraction ask for, for the
\* properties of a record from the i-th on, in enumeration order, depth
\* first: null, undefined and "" are listed, and so is an empty array; an
\* object is walked; of a non-empty array the elements that are objects
\* (or arrays) are walked under name[index]; nothing else is listed.
ExpectedFrom(lit, path, i, parentIsArray) ==
  IF i > Len(lit.props) THEN <<>>
  ELSE LET key == lit.props[i][1]
           v == lit.props[i][2]
           at == IF parentIsArray
                 THEN path \o <<"[">> \o key \o <<"]">>
                 ELSE IF path = <<>> THEN key ELSE path \o <<".">> \o key
           here ==
             IF parentIsArray
             THEN IF v.t = "cell" THEN ExpectedFrom(v, at, 1, FALSE) ELSE <<>>
             ELSE IF v.t \in {"null", "undefined"} \/ v = StrV(<<>>)
             THEN <<[path |-> at, key |-> key, value |-> v]>>
             ELSE IF v.t = "cell" /\ ~v.arr THEN ExpectedFrom(v, at, 1, FALSE)
             ELSE IF v.t = "cell" /\ v.props = <<>>
             THEN <<[path |-> at, key |-> key, value |-> v]>>
             ELSE IF v.t = "cell" THEN ExpectedFrom(v, at, 1, TRUE)
             ELSE <<>>
       IN here \o ExpectedFrom(lit, path, i + 1, parentIsArray)

\* C12: the descriptors extract has produced for a record are exactly the
\* ones the rules ask for, in depth-first enumeration order, each with the
\* path, the key and the value of its property.
C12_ExtractFollowsTheRules ==
  addr.pc \in {"extracted", "read"} =>
    [j \in 1..Len(addr.fields) |->
       [path |-> addr.fields[j].path, key |-> addr.fields[j].key,
        value |-> Read(heap, addr.fields[j].value)]]
      = ExpectedFrom(addr.lit, <<>>, 1, FALSE)

\* Extract has walked an array holding two objects and a string, and has
\* listed a field of each object and the empty array that follows.
C12_Witness ==
  /\ addr.pc = "extracted"
  /\ Len(addr.fields) = 3
  /\ addr.fields[1].path = <<"s", "[", "0", "]", ".", "a">>
  /\ addr.fields[2].path = <<"s", "[", "2", "]", ".", "b">>
  /\ addr.fields[3].path = sU

\* The place of the matcher of that name in the declared list, and the
\* matchers that accept the lower-cased key of the lookup.
DeclaredAt(name) ==
  CHOOSE n \in 1..Len(builtInPatternsDeclared) :
    builtInPatternsDeclared[n].name = name
Accepting ==
  {n \in 1..Len(builtInPatternsDeclared) :
     accepts(builtInPatternsDeclared[n], toLowerCase(reg.key))}
Looked == reg.pc \in {"found", "filled"}

\* C13: a lookup returns a matcher that accepts the lower-cased key and
\* whose priority no accepting matcher exceeds; it returns none only when
\* no matcher accepts the key.
C13_HighestPriorityWins ==
  Looked =>
    IF reg.found = NoPattern.name THEN Accepting = {}
    ELSE /\ DeclaredAt(reg.found) \in Accepting
         /\ \A n \in Accepting :
              builtInPatternsDeclared[n].priority
                <= builtInPatternsDeclared[DeclaredAt(reg.found)].priority

\* The lookup of "orderDate", accepted by the contains-date rule (65) and
\* by the date-suffix rule (60), has returned the former.
C13_Witness ==
  /\ Looked
  /\ reg.key = <<"o", "r", "d", "e", "r", "D", "a", "t", "e">>
  /\ reg.found = "containsDate"
  /\ DeclaredAt("suffixDate") \in Accepting

\* C14: of the accepting matchers that share the priority of the returned
\* one, the returned one is the earliest declared.
C14_EarliestDeclaredWinsTies ==
  (Looked /\ reg.found # NoPattern.name) =>
    \A n \in Accepting :
      builtInPatternsDeclared[n].priority
          = builtInPatternsDeclared[DeclaredAt(reg.found)].priority
        => DeclaredAt(reg.found) <= n

\* The lookup of "emailUrl", accepted by two rules of priority 70, has
\* returned the one declared first.
C14_Witness ==
  /\ Looked
  /\ reg.key = <<"e", "m", "a", "i", "l", "U", "r", "l">>
  /\ reg.found = "containsEmail"
  /\ DeclaredAt("containsUrl") \in Accepting
  /\ builtInPatternsDeclared[DeclaredAt("containsUrl")].priority
       = builtInPatternsDeclared[DeclaredAt("containsEmail")].priority


\* C15: for the keys "username" and "filename" in any letter case the
\* lookup returns the username rule for the one and not the contains-name
\* rule for the other, and a local fill of a missing field with either key
\* does not take its value from the full-name generator.
C15_NameRuleNotUsed ==
  /\ (Looked /\ toLowerCase(reg.key) = sUsername) => reg.found = "username"
  /\ (Looked /\ toLowerCase(reg.key) = sFilename) =>
       reg.found # "containsName"
  /\ (reg.pc = "filled" /\ toLowerCase(reg.key) \in {sUsername, sFilename})
       => reg.source # "fullName"

\* The (path, key) pairs of a descriptor list, the descriptors extracted
\* from a record literal, and the reorderings of a list.
PairsOf(fields) == {<<fields[i].path, fields[i].key>> : i \in 1..Len(fields)}
FieldsOf(lit) == extractEmptyFields(Load(<<>>, lit).h, Load(<<>>, lit).v)
Reorderings(fields) ==
  {[i \in 1..Len(fields) |-> fields[p[i]]] :
     p \in {q \in [1..Len(fields) -> 1..Len(fields)] :
              \A i, j \in 1..Len(fields) : q[i] = q[j] => i = j}}

Expired(entry) == now > entry.timestamp + entry.ttl * 1000

\* What a get that found an entry gave and left, by the age of the entry.
GetByAge ==
  IF Expired(cacheCall.prior)
  THEN cacheCall.got = Null /\ cacheCall.key \notin DOMAIN cache
  ELSE /\ cacheCall.got = cacheCall.prior.value
       /\ EntryAt(cache, cacheCall.key) = cacheCall.prior

\* An entry leaves the cache only in a get that finds it expired, in a
\* delete of its key, or in a clear.
RemovedOnlyOnDemand ==
  \A k \in DOMAIN cache \ DOMAIN cache' :
    \/ cacheCall'.op = "get" /\ cacheCall'.key = k /\ Expired(cache[k])
    \/ cacheCall'.op = "delete" /\ cacheCall'.key = k
    \/ cacheCall'.op = "clear"

\* C17 as the claim states it: a get on an entry older than its ttl gives
\* a miss and deletes the entry, a get on any other entry gives its value
\* and keeps it, and entries leave the cache in no other way than by such
\* a get, a delete or a clear.
C17_LazyExpiryAsStated ==
  /\ []((cacheCall.op = "get" /\ cacheCall.prior.stored) => GetByAge)
  /\ [][RemovedOnlyOnDemand]_vars

\* C17, amended: the same, for the gets of a cache that is enabled.
C17_LazyExpiry ==
  /\ []((cacheCall.op = "get" /\ cacheCall.prior.stored /\ cfg.cacheEnabled)
          => GetByAge)
  /\ [][RemovedOnlyOnDemand]_vars

\* A get of an enabled cache has found an entry older than its ttl, given
\* a miss and deleted the entry.
C17_Witness ==
  /\ cfg.cacheEnabled
  /\ cacheCall.op = "get"
  /\ cacheCall.prior.stored
  /\ Expired(cacheCall.prior)
  /\ cacheCall.got = Null
  /\ cacheCall.key \notin DOMAIN cache

\* The entry a set has left: the value and the ttl given, or the default
\* ttl, and the time of the call.
SetStored ==
  /\ cacheCall.key \in DOMAIN cache
  /\ cache[cacheCall.key] =
       [value |-> cacheCall.value, timestamp |-> now,
        ttl |-> IF cacheCall.ttl = Undef THEN DefaultTtl ELSE cacheCall.ttl.n]

\* A get follows a set of the same key with no step of the clock between.
GetFollowsSet ==
  /\ cacheCall.op = "set"
  /\ cacheCall'.op = "get"
  /\ cacheCall'.key = cacheCall.key

\* C18 as the claim states it: a set leaves an entry with the value given,
\* the time of the call and the ttl given or the default, whatever was
\* stored, and a get of the key that follows it at once gives the value.
C18_SetOverwritesAsStated ==
  /\ [](cacheCall.op = "set" => SetStored)
  /\ [][GetFollowsSet => cacheCall'.got = cacheCall.value]_vars

\* C18, amended: the same, for a cache that is enabled; the get gives the
\* value when the ttl of the set is not negative.
C18_SetOverwrites ==
  /\ []((cacheCall.op = "set" /\ cfg.cacheEnabled) => SetStored)
  /\ [][(/\ GetFollowsSet
         /\ cfg.cacheEnabled
         /\ (cacheCall.ttl = Undef \/ cacheCall.ttl.n >= 0))
          => cacheCall'.got = cacheCall.value]_vars

\* A set of an enabled cache has replaced an entry that held another
\* value.
C18_Witness ==
  /\ cfg.cacheEnabled
  /\ cacheCall.op = "set"
  /\ cacheCall.prior.stored
  /\ cacheCall.prior.value # cacheCall.value
  /\ cache[cacheCall.key].value = cacheCall.value

\* The first fill has invoked the provider and returned, and the entry it
\* stored is in the cache of an enabled mocker and not older than its ttl.
FirstFillStored ==
  /\ cfg.cacheEnabled
  /\ calls[1].pc = "done"
  /\ calls[1].sent # <<>>
  /\ calls[1].cacheKey \in DOMAIN cache
  /\ cache[calls[1].cacheKey].value = calls[1].aiResult.data
  /\ ~Expired(cache[calls[1].cacheKey])

\* The second fill has taken the values the first one stored.
SecondFillFromCache ==
  /\ calls[2].pc \in {"merge", "done"}
  /\ calls[2].consulted
  /\ calls[1].sent # <<>>
  /\ calls[2].aiResult.data = calls[1].aiResult.data

\* C19: a fill that starts when the first fill's entry is stored and not
\* expired, with missing fields of the same (path, key) pairs, sends no
\* request and goes on with the stored values; when it has returned,
\* every missing field for which a value was stored holds that value.
C19_SecondFillUsesCache ==
  /\ [][(/\ FirstFillStored
         /\ calls[2].pc = "idle"
         /\ calls'[2].pc # "idle"
         /\ PairsOf(calls'[2].fields) = PairsOf(calls[1].fields))
          => (/\ calls'[2].sent = <<>>
              /\ calls'[2].pc = "merge"
              /\ calls'[2].aiResult = Success(calls[1].aiResult.data))]_vars
  /\ []((SecondFillFromCache /\ calls[2].pc = "done") =>
          \A n \in 1..Len(calls[2].fields) :
            HasProp(heap[calls[2].aiResult.data.r], calls[2].fields[n].path)
              => getNestedValue(heap, calls[2].result,
                                calls[2].fields[n].path)
                   = GetProp(heap, calls[2].aiResult.data,
                             calls[2].fields[n].path))

\* The second fill has returned a record filled from the entry of the
\* first, without a request of its own.
C19_Witness ==
  /\ SecondFillFromCache
  /\ calls[2].pc = "done"
  /\ calls[2].sent = <<>>
  /\ \E n \in 1..Len(calls[2].fields) :
       /\ HasProp(heap[calls[2].aiResult.data.r], calls[2].fields[n].path)
       /\ getNestedValue(heap, calls[2].result, calls[2].fields[n].path)
            = GetProp(heap, calls[2].aiResult.data, calls[2].fields[n].path)

\* What a fill of the record lit returns when it runs alone and the
\* provider answers with the mapping data: the merge of the mapping into a
\* clone of the record, or threw.
SoloMerge(cl, data) == mergeEntries(Load(cl.h, data).h, cl.v, Load(cl.h, data).v, 1)
SoloRead(cl, w) == [threw |-> w.threw, record |-> Read(w.h, cl.v)]
SoloClone(lit) == deepClone(Load(<<>>, lit).h, Load(<<>>, lit).v)
SoloFill(lit, data) ==
  SoloRead(SoloClone(lit), SoloMerge(SoloClone(lit), data))

\* The call has invoked the provider.
Generated(i) == calls[i].sent # <<>>

\* A fill that generated has returned the record it would return alone
\* with its own result, in cells that are neither its input's nor those
\* of another call that generated; it is rejected after a successful result of its own only
\* where it would be alone.
OwnRecordFromOwnResult(i) ==
  /\ (calls[i].pc = "done" /\ Generated(i)) =>
       /\ Read(heap, calls[i].result)
            = SoloFill(calls[i].lit,
                       Read(heap, calls[i].aiResult.data)).record
       /\ Reach(heap, calls[i].result) \cap Reach(heap, calls[i].obj) = {}
       /\ \A j \in Calls \ {i} :
            Generated(j) =>
              Reach(heap, calls[i].result)
                \cap (Reach(heap, calls[j].cloned)
                        \cup Reach(heap, calls[j].obj)) = {}
  /\ (calls[i].pc = "rejected" /\ calls[i].aiResult.success) =>
       SoloFill(calls[i].lit, Read(heap, calls[i].aiResult.data)).threw

\* A step in which call i does nothing leaves its input and its clone as
\* they are.
UntouchedByOthers(i) ==
  (calls'[i] = calls[i] /\ calls[i].pc # "idle") =>
    /\ Read(heap', calls[i].cloned) = Read(heap, calls[i].cloned)
    /\ Read(heap', calls[i].obj) = Read(heap, calls[i].obj)

\* A suspended call has got a result in this step.
GotResult(i) == calls[i].pc = "awaitAI" /\ calls'[i].pc = "merge"

\* The entry of the call's key holds the result the call got in this
\* step, whatever it held, and the other entries are as they were.
StoredOwnResult(i) ==
  cache' = [k \in DOMAIN cache \cup {calls[i].cacheKey} |->
              IF k = calls[i].cacheKey
              THEN [value |-> calls'[i].aiResult.data,
                    timestamp |-> now, ttl |-> DefaultTtl]
              ELSE cache[k]]

\* The cache changes only when a suspended call gets a result, and each
\* result got on a mocker with the cache enabled replaces the entry of its
\* key.
LastWriteWins ==
  /\ cache' # cache => \E i \in Calls : GotResult(i)
  /\ \A i \in Calls : (GotResult(i) /\ cfg.cacheEnabled) => StoredOwnResult(i)

\* C20: of fills in flight together each returns its own clone, filled
\* from its own result as it would be alone; no step of one call changes
\* the record of another; the entry of the key is that of the last result
\* stored.
C20_ConcurrentFillsKeepApart ==
  /\ [](\A i \in Calls : OwnRecordFromOwnResult(i))
  /\ [][(\A i \in Calls : UntouchedByOthers(i)) /\ LastWriteWins]_vars

\* Two fills of records with the same missing fields were suspended on the
\* provider together, got different results, and both have returned; the
\* first to start stored its result last.
C20_Witness ==
  /\ cfg.cacheEnabled
  /\ \A i \in Calls : calls[i].pc = "done" /\ Generated(i)
  /\ calls[1].cacheKey = calls[2].cacheKey
  /\ PairsOf(calls[1].fields) = PairsOf(calls[2].fields)
  /\ Read(heap, calls[1].result) # Read(heap, calls[2].result)
  /\ calls[1].aiResult.data # calls[2].aiResult.data
  /\ cache[calls[1].cacheKey].value = calls[1].aiResult.data

\* The local fill of a record whose field tags is [] has returned.
TagsFilled ==
  /\ calls[1].kind = "local"
  /\ calls[1].pc = "done"
  /\ \E n \in 1..Len(calls[1].lit.props) :
       calls[1].lit.props[n] = <<sTags, ArrL(<<>>)>>

\* C21: the empty array tags is among the fields extracted, and in the
\* record the fill returns tags is an array that is not empty.
C21_EmptyArrayIsFilled ==
  TagsFilled =>
    /\ \E n \in 1..Len(calls[1].fields) : calls[1].fields[n].path = sTags
    /\ IsArray(heap, GetProp(heap, calls[1].result, sTags))
    /\ ArrayLength(heap[GetProp(heap, calls[1].result, sTags).r]) > 0

\* What the local fill of the profile record returns: each missing field
\* holds a value of the generator of its rule, by name.
ProfileFilled ==
  ObjL(<< <<sId, GeneratedValue("id")>>,
          <<sFirstName, GeneratedValue("firstName")>>,
          <<sEmail, GeneratedValue("email")>>,
          <<sProfile, ObjL(<< <<sCity, GeneratedValue("city")>> >>)>> >>)

\* The local fill of a record, without overrides, has returned.
LocalDone(lit) ==
  /\ calls[1].kind = "local"
  /\ calls[1].pc = "done"
  /\ calls[1].lit = lit
  /\ calls[1].merged = OvNone

Configured(list) == list.given /\ Len(list.list) > 0
UrlFilterPasses ==
  Configured(net.config.urlPatterns) =>
    somePattern(net.config.urlPatterns.list, net.req.url)
ExcludeFilterPasses ==
  Configured(net.config.excludePatterns) =>
    ~somePattern(net.config.excludePatterns.list, net.req.url)
MethodFilterPasses ==
  Configured(net.config.methods) =>
    \E n \in 1..Len(net.config.methods.list) :
      net.config.methods.list[n]
        = toUpperCase(IF net.req.method = "" THEN "GET" ELSE net.req.method)
FiltersPass ==
  /\ net.config.enabled
  /\ UrlFilterPasses
  /\ ExcludeFilterPasses
  /\ MethodFilterPasses

\* C23: a wrapper that is disabled, or whose url, exclusion or method
\* filter the request does not pass, returns the response it received,
\* with the body not read and fill not called; fill is called only when
\* every filter passes and the body is a JSON object.
C23_FilteredResponsesUntouched ==
  net.pc = "returned" =>
    /\ ~FiltersPass => net.out = Untouched
    /\ net.out.fill => FiltersPass /\ net.rsp.body = "object"

\* C24: quickSetup called without a key does not throw and leaves a
\* default instance, and the fill that follows neither rejects nor sends
\* a request to the remote service.
C24_QuickSetupWithoutKey ==
  (setup.pc = "called" /\ setup.apiKey = Undef) =>
    /\ ~setup.threw
    /\ setup.instance
    /\ calls[1].pc # "rejected"
    /\ calls[1].sent = <<>>

\* A segment with a bracket that is not of the form name[digits].
MalformedSegment(part) ==
  /\ \E k \in 1..Len(part) : part[k] \in {"[", "]"}
  /\ ~arrayMatch(part).matched

MalformedPath(path) ==
  \E k \in 1..Len(split(path)) : MalformedSegment(split(path)[k])

RECURSIVE PlainRead(_, _, _, _)
\* The value found by reading every segment from i on as a property name.
PlainRead(h, current, parts, i) ==
  IF i > Len(parts) THEN current
  ELSE IF isNullish(current) THEN Undef
  ELSE PlainRead(h, GetProp(h, current, parts[i]), parts, i + 1)

\* The path of the addressor has no segment of the form name[digits].
AllPlain(path) ==
  \A k \in 1..Len(split(path)) : ~arrayMatch(split(path)[k]).matched

\* C25: get and set never raise on a malformed path; a segment with
\* malformed bracket syntax is read as a plain property name, and get
\* returns undefined once an intermediate container is null or undefined.
C25_MalformedPathNeverRaises ==
  MalformedPath(addr.path) =>
    /\ addr.pc \in {"set", "got"} => ~addr.threw
    /\ addr.pc = "read" /\ AllPlain(addr.path) =>
         addr.got = PlainRead(heap, addr.obj, split(addr.path), 1)

RECURSIVE mergeFields(_, _, _, _, _)
\* The entries of the mapping written in the order of the descriptors.
mergeFields(h, cloned, data, fields, k) ==
  IF k > Len(fields) THEN SetOk(h)
  ELSE IF ~HasProp(h[data.r], fields[k].path)
  THEN mergeFields(h, cloned, data, fields, k + 1)
  ELSE LET w == setNestedValue(h, cloned, fields[k].path,
                               GetProp(h, data, fields[k].path))
       IN IF w.threw THEN w ELSE mergeFields(w.h, cloned, data, fields, k + 1)

\* The mapping of call i lists the requested paths and no other.
ExactMapping(i) ==
  /\ calls[i].aiResult.success
  /\ IsRef(calls[i].aiResult.data)
  /\ {heap[calls[i].aiResult.data.r].props[k][1] :
        k \in 1..Len(heap[calls[i].aiResult.data.r].props)}
       = {calls[i].fields[k].path : k \in 1..Len(calls[i].fields)}

\* The merge of call i has left what the merge in the order of the
\* descriptors, w, leaves: the same record, or a raise in both.
MergedAs(i, w) ==
  /\ (calls'[i].pc = "rejected") = w.threw
  /\ ~w.threw => Read(heap', calls[i].cloned) = Read(w.h, calls[i].cloned)

\* C26: within one fill the generated values are merged into the clone in
\* the extraction order of the descriptors, whatever order the result
\* mapping lists them in.
C26_MergedInExtractionOrder ==
  [][\A i \in Calls :
       calls[i].pc = "merge" /\ calls'[i].pc # "merge" /\ ExactMapping(i) =>
         MergedAs(i, mergeFields(heap, calls[i].cloned, calls[i].aiResult.data,
                                 calls[i].fields, 1))]_vars

\* The descriptors of the record call i was given, as extracted.
Extracted(i) ==
  extractEmptyFields(Load(<<>>, calls[i].lit).h, Load(<<>>, calls[i].lit).v)

\* Descriptor f satisfies every filter option that call i has set.
Kept(i, f) ==
  /\ calls[i].opts.nullOnly => f.value = Null
  /\ calls[i].opts.undefinedOnly => f.value = Undef
  /\ calls[i].opts.emptyStringsOnly => f.value = StrV(<<>>)

PathsOf(fields) == [k \in 1..Len(fields) |-> fields[k].path]

\* C27: the descriptors handed to the generation step are the extracted
\* ones that satisfy every filter option that is set, and when none is
\* left fill returns the unmodified clone without any generation.
C27_FiltersRestrictDescriptors ==
  \A i \in Calls :
    calls[i].kind = "fill" =>
      /\ PathsOf(calls[i].fields)
           = PathsOf(SelectSeq(Extracted(i), LAMBDA f : Kept(i, f)))
      /\ calls[i].fields = <<>> =>
           /\ calls[i].pc = "done"
           /\ Read(heap, calls[i].result) = calls[i].lit
           /\ calls[i].result # calls[i].obj
           /\ calls[i].sent = <<>>
           /\ ~calls[i].consulted
           /\ cache = NoCache

\* nullOnly has kept the null of the mixed record, and it alone has been
\* generated and merged.
C27_Witness ==
  /\ calls[1].pc = "done"
  /\ calls[1].lit = RecMixed
  /\ calls[1].opts = [NoOptions EXCEPT !.nullOnly = TRUE]
  /\ PathsOf(calls[1].fields) = <<sA>>
  /\ GetProp(heap, calls[1].result, sA) = StrV(sX)
  /\ GetProp(heap, calls[1].result, sB) = Undef
  /\ GetProp(heap, calls[1].result, sS) = StrV(<<>>)

\* Two options are set and no descriptor satisfies both: the clone is
\* returned as it is.
C27_WitnessSeveral ==
  /\ calls[1].pc = "done"
  /\ calls[1].lit = RecMixed
  /\ calls[1].opts.nullOnly /\ calls[1].opts.emptyStringsOnly
  /\ calls[1].fields = <<>>

\* The value a deep structure holds under a key, undefined when it has no
\* such key.
HeldAt(cell, key) ==
  IF \E k \in 1..Len(cell.props) : cell.props[k][1] = key
  THEN cell.props[CHOOSE k \in 1..Len(cell.props) : cell.props[k][1] = key][2]
  ELSE Undef

KeysHeld(cell) == {cell.props[k][1] : k \in 1..Len(cell.props)}

\* The path of the member key of the container at path.
MemberPath(path, key, inArray) ==
  IF inArray THEN path \o <<"[">> \o key \o <<"]">>
  ELSE IF path = <<>> THEN key
  ELSE path \o <<".">> \o key

RECURSIVE DiffPaths(_, _, _)
\* The outermost paths at which the deep structures old and new differ.
DiffPaths(old, new, path) ==
  IF old = new THEN {}
  ELSE IF old.t = "cell" /\ new.t = "cell" /\ old.arr = new.arr
  THEN UNION {DiffPaths(HeldAt(old, key), HeldAt(new, key),
                        MemberPath(path, key, old.arr)) :
                key \in KeysHeld(old) \cup KeysHeld(new)}
  ELSE {path}

\* C28: fill writes only where a field was missing: every location at
\* which the record returned differs from the input is the path of a
\* descriptor that was extracted and kept by the filters; an entry of the
\* result mapping with another path is not written.
C28_WritesOnlyMissingFields ==
  \A i \in Calls :
    calls[i].kind = "fill" /\ calls[i].pc = "done" =>
      DiffPaths(calls[i].lit, Read(heap, calls[i].result), <<>>)
        \subseteq {calls[i].fields[k].path : k \in 1..Len(calls[i].fields)}

\* The generation step of call i has failed and the call has rejected.
GenerationFailed(i) ==
  /\ calls[i].kind = "fill"
  /\ calls[i].pc = "rejected"
  /\ calls[i].consulted
  /\ ~calls[i].aiResult.success

\* Call i has got a result on a mocker that stores results.
HasStored(i) ==
  /\ cfg.cacheEnabled
  /\ calls[i].sent # <<>>
  /\ calls[i].aiResult.success

\* The entry call i stored is in the cache.
StillStored(i) ==
  /\ calls[i].cacheKey \in DOMAIN cache
  /\ cache[calls[i].cacheKey].value = calls[i].aiResult.data
  /\ cache[calls[i].cacheKey].ttl = DefaultTtl

Hits(i) ==
  /\ calls[i].pc = "idle"
  /\ calls'[i].kind = "fill"
  /\ calls'[i].consulted
  /\ calls'[i].pc = "merge"

\* Call i enters generateWithAI in this step and finds no entry to use.
Misses(i) ==
  /\ calls[i].pc = "idle"
  /\ calls'[i].kind = "fill"
  /\ calls'[i].consulted
  /\ calls'[i].pc \in {"awaitAI", "rejected"}

\* The generation step of call i fails in this step.
Fails(i) ==
  /\ calls[i].pc = "awaitAI"
  /\ calls'[i].pc \in {"rejected", "backoff"}

\* The cache without the entry of key, if that entry has expired.
WithoutExpired(key) ==
  [k \in {d \in DOMAIN cache : d # key \/ ~Expired(cache[d])} |-> cache[k]]

RetrySettled == rt.pc \in {"returned", "thrown"}

\* The attempts made so far that rejected, and the delays due after them:
\* baseDelay * 2^k after attempt k, counted from 0.
RejectedSoFar == Cardinality({k \in 1..Len(rt.settled) : rt.settled[k].rejected})
DelaysAfter(n) == [k \in 1..n |-> BaseDelay * Pow2(k - 1)]

\* fn is invoked at most maxRetries times, and never after an attempt that
\* resolved.
AtMostMaxRetries ==
  /\ rt.invoked <= rt.maxRetries
  /\ Len(rt.settled) <= rt.invoked
  /\ \A k \in 1..(rt.invoked - 1) : rt.settled[k].rejected

\* retry returns the value of the first attempt that resolves.
ReturnsFirstResolved ==
  rt.pc = "returned" =>
    /\ Len(rt.settled) = rt.invoked
    /\ ~rt.settled[rt.invoked].rejected
    /\ rt.value = rt.settled[rt.invoked].value

\* After every attempt that rejected but the last one allowed, retry has
\* waited, the k-th time for baseDelay * 2^k.
WaitsBetweenAttempts ==
  rt.slept = DelaysAfter(IF rt.pc = "thrown" /\ rt.invoked > 0
                         THEN rt.invoked - 1 ELSE RejectedSoFar)

\* When every attempt has rejected retry throws the error of the last.
ThrowsLastError ==
  /\ rt.pc = "thrown" /\ rt.maxRetries > 0 =>
       /\ rt.invoked = rt.maxRetries
       /\ Len(rt.settled) = rt.maxRetries
       /\ rt.error = StrV(<<rt.settled[rt.maxRetries].error>>)
  /\ (Len(rt.settled) = rt.maxRetries /\ rt.maxRetries > 0
        /\ rt.settled[rt.maxRetries].rejected) => rt.pc = "thrown"

\* C30: retry invokes fn at most maxRetries times and stops at the first
\* attempt that resolves, returning its value; after failed attempt k it
\* waits baseDelay * 2^k before the next attempt and not after the last;
\* when all attempts reject it rejects with the error of the last one; it
\* terminates when every call of fn settles.
C30_RetryBackoff ==
  /\ [](AtMostMaxRetries /\ ReturnsFirstResolved /\ WaitsBetweenAttempts
          /\ ThrowsLastError)
  /\ (rt.pc # "idle" ~> RetrySettled)

\* Three attempts were allowed, all three rejected, retry has waited
\* twice, for 1000 and 2000 ms, and has thrown the last error.
C30_Witness ==
  /\ rt.pc = "thrown"
  /\ rt.maxRetries = 3
  /\ rt.invoked = 3
  /\ rt.settled = <<Rejected("first"), Rejected("first"), Rejected("second")>>
  /\ rt.slept = <<BaseDelay, 2 * BaseDelay>>
  /\ rt.error = StrV(<<"second">>)

====
